---- MODULE Spec2Model ----
(***************************************************************************)
(* Model of the FDG league web app (Apps Script): the ownership fold       *)
(* (rebuildRosters), transaction validation (validateTransaction_), the    *)
(* doPost webhook, and the waiver engine (handleWaiverSubmit_,             *)
(* handleWaiverRun_).  Sheets are modelled as sequences of rows or, for    *)
(* Rosters, as the map pdga -> owning team that getOwnershipStateFromRosters_*)
(* reads back from it.  Timestamps, player names and the WebhookLog sheet  *)
(* are not modelled: no decision of the code reads them.                   *)
(***************************************************************************)
EXTENDS Integers, Sequences, FiniteSets, TLC

VARIABLES
  draftBoard,    \* DraftBoard sheet: pdga -> raw team name ("" = not drafted)
  transactions,  \* Transactions sheet: sequence of rows
  rosters,       \* Rosters sheet as read back: pdga -> team ("" = no row)
  standings,     \* Standings sheet: sequence of raw rows
  requests,      \* WaiverRequests sheet: sequence of rows
  awardsLog,     \* WaiverAwardsLog sheet: sequence of rows
  subs,          \* AlertSubscriptions sheet: sequence of rows
  smsLog,        \* SmsLog sheet: sequence of rows
  pc,            \* position of the doPost request holding the script lock
  run,           \* locals of handleWaiverRun_ while its round loop executes
  lastReq,       \* the JSON body of the latest request
  resp,          \* the JSON response of the latest finished request
  ranCycles,     \* cycles for which a run has returned ok, alreadyPosted=false
  nreq,          \* number of doPost requests received
  lookupSheets,  \* TRUE while the spreadsheet holds both the MPO and the FPO sheet
  lockHolder,    \* the execution holding the script lock (0 = free)
  exec,          \* position of every script execution that entered doPost
  cache,         \* script cache: the dedupe keys put by smsDedupeHit_
  fan,           \* position of each execution in an alert fan-out
  twilio,        \* messages the SMS provider accepted: key and sending execution
  statsFact,     \* StatsFact sheet below its header: sequence of rows
  statsRes,      \* the latest upsertStatsFactRows_ call: its input and its result
  bot,           \* the bot's /trade handler: its position between its two posts
  menu,          \* position of a Rebuild Rosters run started from the menu
  sender,        \* each execution's place in its sendSmsAlert_ calls, with its budget
  counters,      \* script cache: the hour and the day counter of SENT messages
  accepted,      \* messages the SMS provider accepted this hour, this day, per execution
  optedOut,      \* phones whose latest keyword message to the league's number was a STOP
  lineups,       \* Lineups sheet: sequence of rows
  lineupHistory, \* LineupHistory sheet: sequence of rows
  scriptProperties, \* script properties: the EVENT_FINALIZED_<code> keys set to 1
  channel,       \* messages posted to the Discord waiver channel
  cron,          \* the bot's runWaiverAwardsForEvent: its position and the reply it holds
  today          \* the date of the script's clock, as a day number

vars == <<draftBoard, transactions, rosters, standings, requests, awardsLog,
          subs, smsLog, pc, run, lastReq, resp, ranCycles, nreq, lookupSheets,
          lockHolder, exec, cache, fan, twilio, statsFact, statsRes, bot, menu,
          sender, counters, accepted, optedOut, lineups, lineupHistory,
          scriptProperties, channel, cron, today>>

-----------------------------------------------------------------------------
(* Bounds of the model *)

MaxRequests == 3     \* doPost requests per behaviour
MaxPicks == 2        \* picks in one WAIVER_SUBMIT body

MaxExecs == 3        \* script executions entering doPost at overlapping times
MaxFans == 2         \* script executions sending alerts at overlapping times
MaxUpserts == 2      \* upsertStatsFactRows_ calls per behaviour

Execs == 1..MaxExecs
Fans == 1..MaxFans

(* Program constants *)

MAX_ROSTER == 10
MAX_ROUNDS == 50
RANK_MIN == 1
RANK_MAX == 10

FREE_AGENT == "Free Agent"

\* Three of the league's ten teams, and the free-agent sentinel.
CANON_TEAMS == <<"Sir Krontzalot", "Exalted Evil", "Ryan Morgan", "Free Agent">>

TeamA == "Exalted Evil"
TeamB == "Ryan Morgan"
TeamC == "Sir Krontzalot"

CanonSet == {CANON_TEAMS[i] : i \in 1..Len(CANON_TEAMS)}
LeagueTeams == CanonSet \ {FREE_AGENT}

\* String(x).toUpperCase() on the raw names the model feeds in.
ToUpperCase(s) ==
  CASE s = "Sir Krontzalot" -> "SIR KRONTZALOT"
    [] s = "sir krontzalot" -> "SIR KRONTZALOT"
    [] s = "Exalted Evil"   -> "EXALTED EVIL"
    [] s = "Ryan Morgan"    -> "RYAN MORGAN"
    [] s = "Free Agent"     -> "FREE AGENT"
    [] s = "Nobody"         -> "NOBODY"
    [] s = "add"            -> "ADD"
    [] OTHER                -> s

\* String(x).toLowerCase() on the modes the model feeds in.
ToLowerCase(s) ==
  CASE s = "VALIDATE" -> "validate"
    [] s = "Validate" -> "validate"
    [] OTHER          -> s

shorthand(key) ==
  CASE key = "SIR" -> "Sir Krontzalot"
    [] key = "EXA" -> "Exalted Evil"
    [] key = "RYA" -> "Ryan Morgan"
    [] key = "FA" -> "Free Agent"
    [] key = "FREE" -> "Free Agent"
    [] key = "FREE AGENT" -> "Free Agent"
    [] key = "FREE AGENTS" -> "Free Agent"
    [] OTHER -> ""

normalizeTeam_(t) ==
  IF t = "" THEN ""
  ELSE LET key == ToUpperCase(t)
           hits == {i \in 1..Len(CANON_TEAMS) : ToUpperCase(CANON_TEAMS[i]) = key}
       IN IF hits # {} THEN CANON_TEAMS[CHOOSE i \in hits : \A j \in hits : i <= j]
          ELSE shorthand(key)

\* a.localeCompare(b) < 0 on canonical team names.
NameRank(t) ==
  CASE t = "Exalted Evil" -> 1
    [] t = "Free Agent" -> 2
    [] t = "Ryan Morgan" -> 3
    [] t = "Sir Krontzalot" -> 4
    [] OTHER -> 0

localeCompare(a, b) == NameRank(a) - NameRank(b)

-----------------------------------------------------------------------------
(* Players *)

Fillers == {"f1", "f2", "f3", "f4", "f5", "f6", "f7", "f8", "f9"}
ActivePdgasSeq == << "p1", "p2", "p3" >>
ActivePdgas == {ActivePdgasSeq[i] : i \in 1..Len(ActivePdgasSeq)}
PDGAS == ActivePdgas \cup Fillers \cup {"p9"}
PlayerPool == ActivePdgas \cup Fillers    \* "p9" is on no PlayerPool row

SeqToSet(s) == {s[i] : i \in 1..Len(s)}

-----------------------------------------------------------------------------
(* 6) Rosters rebuild: the fold of DraftBoard with Transactions *)

DraftCurrent(draft) ==
  [p \in PDGAS |-> normalizeTeam_(draft[p])]

\* ApplyTxRow whose DROP frees the player whoever owns it.
ApplyTxRow_dropAlways(cur, row) ==
  LET type == ToUpperCase(row.type)
      team == normalizeTeam_(row.team)
      pdga == row.pdga
      from == normalizeTeam_(row.from)
      to   == normalizeTeam_(row.to)
  IN IF type = "" \/ pdga = "" THEN cur
     ELSE IF type = "ADD" THEN
       LET target == IF to # "" THEN to ELSE team
       IN IF target = "" THEN cur ELSE [cur EXCEPT ![pdga] = target]
     ELSE IF type = "DROP" THEN
       LET expected == IF from # "" THEN from ELSE team
       IN IF expected = "" THEN cur
          ELSE [cur EXCEPT ![pdga] = FREE_AGENT]
     ELSE IF type = "TRADE" THEN
       IF to = "" THEN cur ELSE [cur EXCEPT ![pdga] = to]
     ELSE cur

ApplyTxRow(cur, row) ==
  LET type == ToUpperCase(row.type)
      team == normalizeTeam_(row.team)
      pdga == row.pdga
      from == normalizeTeam_(row.from)
      to   == normalizeTeam_(row.to)
  IN IF type = "" \/ pdga = "" THEN cur
     ELSE IF type = "ADD" THEN
       LET target == IF to # "" THEN to ELSE team
       IN IF target = "" THEN cur ELSE [cur EXCEPT ![pdga] = target]
     ELSE IF type = "DROP" THEN
       LET expected == IF from # "" THEN from ELSE team
       IN IF expected = "" THEN cur
          ELSE IF cur[pdga] # "" /\ normalizeTeam_(cur[pdga]) = normalizeTeam_(expected)
                 THEN [cur EXCEPT ![pdga] = FREE_AGENT]
          ELSE IF cur[pdga] = "" THEN [cur EXCEPT ![pdga] = FREE_AGENT]
          ELSE cur
     ELSE IF type = "TRADE" THEN
       IF to = "" THEN cur ELSE [cur EXCEPT ![pdga] = to]
     ELSE cur

RECURSIVE FoldTx(_, _, _)
FoldTx(cur, tx, i) ==
  IF i > Len(tx) THEN cur ELSE FoldTx(ApplyTxRow(cur, tx[i]), tx, i + 1)

rebuildRosters(draft, tx) ==
  LET current == FoldTx(DraftCurrent(draft), tx, 1)
  IN [p \in PDGAS |-> normalizeTeam_(current[p])]

\* Rosters after rosterSheet.clearContents(): no row, so no owner is read back.
RostersCleared == [p \in PDGAS |-> ""]

(* 7) Ownership state read back from Rosters *)

ownerByPdgaOf(ros) == [p \in PDGAS |-> normalizeTeam_(ros[p])]

countByTeamOf(ros, team) ==
  Cardinality({p \in PDGAS : normalizeTeam_(ros[p]) = team /\ team # ""})

-----------------------------------------------------------------------------
(* 8) Transaction validation *)

Err(cond, e) == IF cond THEN <<e>> ELSE <<>>

\* validateSwap_ with the roster test of ADD (a full roster is refused).
validateSwap_fullIsOver(ros, type, team, data) ==
  LET ownerByPdga == ownerByPdgaOf(ros)
      dropPdga == data.dropPdga
      addPdga == data.addPdga
      rosterCount == countByTeamOf(ros, team)
      dropOwner == IF dropPdga \in PDGAS THEN ownerByPdga[dropPdga] ELSE ""
      addOwner == IF addPdga \in PDGAS THEN ownerByPdga[addPdga] ELSE ""
      addIsFreeAgent == addOwner = "" \/ normalizeTeam_(addOwner) = FREE_AGENT
      errors ==
           Err(type = "", <<"MISSING_TYPE", "">>)
        \o Err(team = "", <<"MISSING_TEAM", "">>)
        \o Err(dropPdga = "", <<"SWAP_REQUIRES_DROP_PDGA", "">>)
        \o Err(data.dropName = "", <<"SWAP_REQUIRES_DROP_NAME", "">>)
        \o Err(addPdga = "", <<"SWAP_REQUIRES_ADD_PDGA", "">>)
        \o Err(data.addName = "", <<"SWAP_REQUIRES_ADD_NAME", "">>)
        \o Err(dropPdga # "" /\ addPdga # "" /\ dropPdga = addPdga, <<"SWAP_SAME_PDGA", "">>)
        \o Err(rosterCount >= MAX_ROSTER, <<"SWAP_OVER_CAP", team>>)
        \o (IF dropOwner = "" THEN <<(<<"SWAP_DROP_NOT_OWNED", "">>)>>
            ELSE Err(normalizeTeam_(dropOwner) # normalizeTeam_(team),
                     <<"SWAP_DROP_WRONG_OWNER", dropOwner>>))
        \o Err(~addIsFreeAgent, <<"SWAP_ADD_NOT_FREE_AGENT", addOwner>>)
  IN [ok |-> errors = <<>>, errors |-> errors]

validateSwap_(ros, type, team, data) ==
  LET ownerByPdga == ownerByPdgaOf(ros)
      dropPdga == data.dropPdga
      addPdga == data.addPdga
      rosterCount == countByTeamOf(ros, team)
      dropOwner == IF dropPdga \in PDGAS THEN ownerByPdga[dropPdga] ELSE ""
      addOwner == IF addPdga \in PDGAS THEN ownerByPdga[addPdga] ELSE ""
      addIsFreeAgent == addOwner = "" \/ normalizeTeam_(addOwner) = FREE_AGENT
      errors ==
           Err(type = "", <<"MISSING_TYPE", "">>)
        \o Err(team = "", <<"MISSING_TEAM", "">>)
        \o Err(dropPdga = "", <<"SWAP_REQUIRES_DROP_PDGA", "">>)
        \o Err(data.dropName = "", <<"SWAP_REQUIRES_DROP_NAME", "">>)
        \o Err(addPdga = "", <<"SWAP_REQUIRES_ADD_PDGA", "">>)
        \o Err(data.addName = "", <<"SWAP_REQUIRES_ADD_NAME", "">>)
        \o Err(dropPdga # "" /\ addPdga # "" /\ dropPdga = addPdga, <<"SWAP_SAME_PDGA", "">>)
        \o Err(rosterCount > MAX_ROSTER, <<"SWAP_OVER_CAP", team>>)
        \o (IF dropOwner = "" THEN <<(<<"SWAP_DROP_NOT_OWNED", "">>)>>
            ELSE Err(normalizeTeam_(dropOwner) # normalizeTeam_(team),
                     <<"SWAP_DROP_WRONG_OWNER", dropOwner>>))
        \o Err(~addIsFreeAgent, <<"SWAP_ADD_NOT_FREE_AGENT", addOwner>>)
  IN [ok |-> errors = <<>>, errors |-> errors]

\* validateOther_ without the ownership test of ADD.
validateOther_capOnly(ros, type, team, data) ==
  LET ownerByPdga == ownerByPdgaOf(ros)
      pdga == data.pdga
      fromTeam == normalizeTeam_(data.fromTeam)
      toTeam == normalizeTeam_(data.toTeam)
      early ==
           Err(type = "", <<"MISSING_TYPE", "">>)
        \o Err(team = "", <<"MISSING_TEAM", "">>)
        \o Err(pdga = "", <<"MISSING_PDGA", "">>)
        \o Err(data.name = "", <<"MISSING_NAME", "">>)
      currentOwner == IF pdga \in PDGAS THEN ownerByPdga[pdga] ELSE ""
      isFreeAgent == currentOwner = "" \/ normalizeTeam_(currentOwner) = FREE_AGENT
      target == IF toTeam # "" THEN toTeam ELSE team
      expectedOwner == IF fromTeam # "" THEN fromTeam ELSE team
      ownerErrs(code1, code2) ==
        IF currentOwner = "" THEN <<(<<code1, "">>)>>
        ELSE Err(normalizeTeam_(currentOwner) # normalizeTeam_(expectedOwner),
                 <<code2, currentOwner>>)
      errors ==
           Err(type = "TRADE" /\ toTeam = "", <<"TRADE_REQUIRES_TO_TEAM", "">>)
        \o Err(type = "TRADE" /\ toTeam # "" /\ team # ""
                 /\ normalizeTeam_(toTeam) = normalizeTeam_(team),
               <<"TRADE_SAME_TEAM", "">>)
        \o (IF type = "ADD" THEN
                 Err(target = "", <<"ADD_REQUIRES_TEAM", "">>)
              \o Err(countByTeamOf(ros, target) >= MAX_ROSTER, <<"ADD_ROSTER_FULL", target>>)
            ELSE <<>>)
        \o (IF type = "DROP" THEN
                 Err(expectedOwner = "", <<"DROP_REQUIRES_TEAM", "">>)
              \o ownerErrs("DROP_NOT_OWNED", "DROP_WRONG_OWNER")
            ELSE <<>>)
        \o (IF type = "TRADE" /\ toTeam # "" THEN
              ownerErrs("TRADE_NOT_OWNED", "TRADE_WRONG_OWNER")
            ELSE <<>>)
  IN IF early # <<>> THEN [ok |-> FALSE, errors |-> early]
     ELSE [ok |-> errors = <<>>, errors |-> errors]

\* validateOther_ without the ownership test of DROP.
validateOther_dropAnyOwner(ros, type, team, data) ==
  LET ownerByPdga == ownerByPdgaOf(ros)
      pdga == data.pdga
      fromTeam == normalizeTeam_(data.fromTeam)
      toTeam == normalizeTeam_(data.toTeam)
      early ==
           Err(type = "", <<"MISSING_TYPE", "">>)
        \o Err(team = "", <<"MISSING_TEAM", "">>)
        \o Err(pdga = "", <<"MISSING_PDGA", "">>)
        \o Err(data.name = "", <<"MISSING_NAME", "">>)
      currentOwner == IF pdga \in PDGAS THEN ownerByPdga[pdga] ELSE ""
      isFreeAgent == currentOwner = "" \/ normalizeTeam_(currentOwner) = FREE_AGENT
      target == IF toTeam # "" THEN toTeam ELSE team
      expectedOwner == IF fromTeam # "" THEN fromTeam ELSE team
      ownerErrs(code1, code2) ==
        IF currentOwner = "" THEN <<(<<code1, "">>)>>
        ELSE Err(normalizeTeam_(currentOwner) # normalizeTeam_(expectedOwner),
                 <<code2, currentOwner>>)
      errors ==
           Err(type = "TRADE" /\ toTeam = "", <<"TRADE_REQUIRES_TO_TEAM", "">>)
        \o Err(type = "TRADE" /\ toTeam # "" /\ team # ""
                 /\ normalizeTeam_(toTeam) = normalizeTeam_(team),
               <<"TRADE_SAME_TEAM", "">>)
        \o (IF type = "ADD" THEN
                 Err(target = "", <<"ADD_REQUIRES_TEAM", "">>)
              \o Err(~isFreeAgent, <<"ADD_NOT_FREE_AGENT", currentOwner>>)
              \o Err(countByTeamOf(ros, target) >= MAX_ROSTER, <<"ADD_ROSTER_FULL", target>>)
            ELSE <<>>)
        \o (IF type = "DROP" THEN
                 Err(expectedOwner = "", <<"DROP_REQUIRES_TEAM", "">>)
            ELSE <<>>)
        \o (IF type = "TRADE" /\ toTeam # "" THEN
              ownerErrs("TRADE_NOT_OWNED", "TRADE_WRONG_OWNER")
            ELSE <<>>)
  IN IF early # <<>> THEN [ok |-> FALSE, errors |-> early]
     ELSE [ok |-> errors = <<>>, errors |-> errors]

validateOther_(ros, type, team, data) ==
  LET ownerByPdga == ownerByPdgaOf(ros)
      pdga == data.pdga
      fromTeam == normalizeTeam_(data.fromTeam)
      toTeam == normalizeTeam_(data.toTeam)
      early ==
           Err(type = "", <<"MISSING_TYPE", "">>)
        \o Err(team = "", <<"MISSING_TEAM", "">>)
        \o Err(pdga = "", <<"MISSING_PDGA", "">>)
        \o Err(data.name = "", <<"MISSING_NAME", "">>)
      currentOwner == IF pdga \in PDGAS THEN ownerByPdga[pdga] ELSE ""
      isFreeAgent == currentOwner = "" \/ normalizeTeam_(currentOwner) = FREE_AGENT
      target == IF toTeam # "" THEN toTeam ELSE team
      expectedOwner == IF fromTeam # "" THEN fromTeam ELSE team
      ownerErrs(code1, code2) ==
        IF currentOwner = "" THEN <<(<<code1, "">>)>>
        ELSE Err(normalizeTeam_(currentOwner) # normalizeTeam_(expectedOwner),
                 <<code2, currentOwner>>)
      errors ==
           Err(type = "TRADE" /\ toTeam = "", <<"TRADE_REQUIRES_TO_TEAM", "">>)
        \o Err(type = "TRADE" /\ toTeam # "" /\ team # ""
                 /\ normalizeTeam_(toTeam) = normalizeTeam_(team),
               <<"TRADE_SAME_TEAM", "">>)
        \o (IF type = "ADD" THEN
                 Err(target = "", <<"ADD_REQUIRES_TEAM", "">>)
              \o Err(~isFreeAgent, <<"ADD_NOT_FREE_AGENT", currentOwner>>)
              \o Err(countByTeamOf(ros, target) >= MAX_ROSTER, <<"ADD_ROSTER_FULL", target>>)
            ELSE <<>>)
        \o (IF type = "DROP" THEN
                 Err(expectedOwner = "", <<"DROP_REQUIRES_TEAM", "">>)
              \o ownerErrs("DROP_NOT_OWNED", "DROP_WRONG_OWNER")
            ELSE <<>>)
        \o (IF type = "TRADE" /\ toTeam # "" THEN
              ownerErrs("TRADE_NOT_OWNED", "TRADE_WRONG_OWNER")
            ELSE <<>>)
  IN IF early # <<>> THEN [ok |-> FALSE, errors |-> early]
     ELSE [ok |-> errors = <<>>, errors |-> errors]

validateTransaction_(ros, data) ==
  LET type == ToUpperCase(data.type)
      team == normalizeTeam_(data.team)
  IN IF type # "" /\ type \notin {"ADD", "DROP", "TRADE", "SWAP"}
       THEN [ok |-> FALSE,
             errors |-> Err(team = "", <<"MISSING_TEAM", "">>) \o <<(<<"UNKNOWN_TYPE", type>>)>>]
     ELSE IF type = "SWAP" THEN validateSwap_(ros, type, team, data)
     ELSE validateOther_(ros, type, team, data)

-----------------------------------------------------------------------------
(* 2) Alert subscriptions and SMS *)

\* The rows loadAlertSubscriptions_ keeps: a known team and a phone.
loadAlertSubscriptions_(rows) ==
  SelectSeq([i \in 1..Len(rows) |-> [rows[i] EXCEPT !.team = normalizeTeam_(rows[i].team)]],
            LAMBDA s : s.team # "" /\ s.phone # "")

\* sendSmsAlert_ appends exactly one SmsLog row per call: SENT, ERROR (a cap or
\* the provider) or SKIPPED (kill switch, duplicate).  Which one depends on the
\* script cache and on Twilio, which are left open here.
SmsOutcomes == {"SENT", "ERROR", "SKIPPED"}

SmsFanout(targets, alertType) ==
  {[i \in 1..Len(targets) |->
      [team |-> targets[i].team, alertType |-> alertType, status |-> st[i]]]
     : st \in [1..Len(targets) -> SmsOutcomes]}

sendFreeAgentDropAlerts_(subRows) ==
  SmsFanout(SelectSeq(loadAlertSubscriptions_(subRows),
                      LAMBDA s : s.enabled /\ ~s.optOut /\ s.freeAgents),
            "FreeAgents")

sendWaiverAwardAlerts_(subRows, awardsByTeam) ==
  SmsFanout(SelectSeq(loadAlertSubscriptions_(subRows),
                      LAMBDA s : s.enabled /\ ~s.optOut /\ s.waiverAwards
                                 /\ awardsByTeam[s.team] # <<>>),
            "WaiverAwards")

-----------------------------------------------------------------------------
(* 12) doPost: the transaction path *)

TxRow(type, team, pdga, from, to) ==
  [type |-> type, team |-> team, pdga |-> pdga, from |-> from, to |-> to]

\* CommitRows with the ADD row of a SWAP alone.
CommitRows_addOnly(data) ==
  LET type == ToUpperCase(data.type)
      team == normalizeTeam_(data.team)
  IN IF type = "SWAP"
       THEN << TxRow("ADD", team, data.addPdga, FREE_AGENT, team) >>
       ELSE << TxRow(type, team, data.pdga,
                     normalizeTeam_(data.fromTeam), normalizeTeam_(data.toTeam)) >>

\* The rows a validated request appends to Transactions.
CommitRows(data) ==
  LET type == ToUpperCase(data.type)
      team == normalizeTeam_(data.team)
  IN IF type = "SWAP"
       THEN << TxRow("DROP", team, data.dropPdga, team, FREE_AGENT),
               TxRow("ADD", team, data.addPdga, FREE_AGENT, team) >>
       ELSE << TxRow(type, team, data.pdga,
                     normalizeTeam_(data.fromTeam), normalizeTeam_(data.toTeam)) >>

\* The transaction path without the validate-only mode: what validates is committed.
DoPostTransaction_modeIgnored(Inputs) ==
  /\ pc = "idle"
  /\ nreq < MaxRequests
  /\ \E data \in Inputs :
       LET type == ToUpperCase(data.type)
           team == normalizeTeam_(data.team)
           verdict == validateTransaction_(rosters, data)
       IN /\ lastReq' = data
          /\ nreq' = nreq + 1
          /\ IF type = "" \/ team = "" THEN
               /\ resp' = [action |-> "TX", ok |-> FALSE, error |-> "MISSING_REQUIRED_FIELDS"]
               /\ UNCHANGED <<transactions, rosters, smsLog>>
             ELSE IF ~verdict.ok THEN
               /\ resp' = [action |-> "TX", ok |-> FALSE, errors |-> verdict.errors]
               /\ UNCHANGED <<transactions, rosters, smsLog>>
             ELSE
               /\ transactions' = transactions \o CommitRows(data)
               /\ IF type \in {"SWAP", "DROP"}
                    THEN \E sent \in sendFreeAgentDropAlerts_(subs) : smsLog' = smsLog \o sent
                    ELSE smsLog' = smsLog
               /\ IF lookupSheets THEN
                    /\ rosters' = rebuildRosters(draftBoard, transactions')
                    /\ resp' = [action |-> "TX", ok |-> TRUE, validated |-> FALSE]
                  ELSE
                    /\ rosters' = RostersCleared
                    /\ resp' = [action |-> "TX", ok |-> FALSE, error |-> "MISSING_MPO_OR_FPO"]
  /\ UNCHANGED <<today, lineups, lineupHistory, scriptProperties, channel, cron, optedOut, sender, counters, accepted, bot, menu, statsFact, statsRes, cache, fan, twilio, lockHolder, exec, lookupSheets, draftBoard, standings, requests, awardsLog, subs, pc, run, ranCycles>>

\* Variant: an awarded player can be added by the awarded team only.
DoPostTransaction_awardeeOnly(Inputs) ==
  /\ pc = "idle"
  /\ nreq < MaxRequests
  /\ \E data \in Inputs :
       LET type == ToUpperCase(data.type)
           team == normalizeTeam_(data.team)
           verdict == validateTransaction_(rosters, data)
       IN /\ lastReq' = data
          /\ nreq' = nreq + 1
          /\ IF type = "" \/ team = "" THEN
               /\ resp' = [action |-> "TX", ok |-> FALSE, error |-> "MISSING_REQUIRED_FIELDS"]
               /\ UNCHANGED <<transactions, rosters, smsLog>>
             ELSE IF type = "ADD" /\ \E k \in 1..Len(awardsLog) :
                       /\ awardsLog[k].status = "AWARDED"
                       /\ awardsLog[k].pdga = data.pdga
                       /\ awardsLog[k].team # team THEN
               /\ resp' = [action |-> "TX", ok |-> FALSE, error |-> "AWARDED_TO_ANOTHER_TEAM"]
               /\ UNCHANGED <<transactions, rosters, smsLog>>
             ELSE IF ~verdict.ok THEN
               /\ resp' = [action |-> "TX", ok |-> FALSE, errors |-> verdict.errors]
               /\ UNCHANGED <<transactions, rosters, smsLog>>
             ELSE IF ToLowerCase(data.mode) = "validate" THEN
               /\ resp' = [action |-> "TX", ok |-> TRUE, validated |-> TRUE]
               /\ UNCHANGED <<transactions, rosters, smsLog>>
             ELSE
               /\ transactions' = transactions \o CommitRows(data)
               /\ IF type \in {"SWAP", "DROP"}
                    THEN \E sent \in sendFreeAgentDropAlerts_(subs) : smsLog' = smsLog \o sent
                    ELSE smsLog' = smsLog
               /\ IF lookupSheets THEN
                    /\ rosters' = rebuildRosters(draftBoard, transactions')
                    /\ resp' = [action |-> "TX", ok |-> TRUE, validated |-> FALSE]
                  ELSE
                    /\ rosters' = RostersCleared
                    /\ resp' = [action |-> "TX", ok |-> FALSE, error |-> "MISSING_MPO_OR_FPO"]
  /\ UNCHANGED <<today, lineups, lineupHistory, scriptProperties, channel, cron, optedOut, sender, counters, accepted, bot, menu, statsFact, statsRes, cache, fan, twilio, lockHolder, exec, lookupSheets, draftBoard, standings, requests, awardsLog, subs, pc, run, ranCycles>>

DoPostTransaction(Inputs) ==
  /\ pc = "idle"
  /\ nreq < MaxRequests
  /\ \E data \in Inputs :
       LET type == ToUpperCase(data.type)
           team == normalizeTeam_(data.team)
           verdict == validateTransaction_(rosters, data)
       IN /\ lastReq' = data
          /\ nreq' = nreq + 1
          /\ IF type = "" \/ team = "" THEN
               /\ resp' = [action |-> "TX", ok |-> FALSE, error |-> "MISSING_REQUIRED_FIELDS"]
               /\ UNCHANGED <<transactions, rosters, smsLog>>
             ELSE IF ~verdict.ok THEN
               /\ resp' = [action |-> "TX", ok |-> FALSE, errors |-> verdict.errors]
               /\ UNCHANGED <<transactions, rosters, smsLog>>
             ELSE IF ToLowerCase(data.mode) = "validate" THEN
               /\ resp' = [action |-> "TX", ok |-> TRUE, validated |-> TRUE]
               /\ UNCHANGED <<transactions, rosters, smsLog>>
             ELSE
               /\ transactions' = transactions \o CommitRows(data)
               /\ IF type \in {"SWAP", "DROP"}
                    THEN \E sent \in sendFreeAgentDropAlerts_(subs) : smsLog' = smsLog \o sent
                    ELSE smsLog' = smsLog
               /\ IF lookupSheets THEN
                    /\ rosters' = rebuildRosters(draftBoard, transactions')
                    /\ resp' = [action |-> "TX", ok |-> TRUE, validated |-> FALSE]
                  ELSE
                    /\ rosters' = RostersCleared
                    /\ resp' = [action |-> "TX", ok |-> FALSE, error |-> "MISSING_MPO_OR_FPO"]
  /\ UNCHANGED <<today, lineups, lineupHistory, scriptProperties, channel, cron, optedOut, sender, counters, accepted, bot, menu, statsFact, statsRes, cache, fan, twilio, lockHolder, exec, lookupSheets, draftBoard, standings, requests, awardsLog, subs, pc, run, ranCycles>>

-----------------------------------------------------------------------------
(* 9) Waivers: WAIVER_SUBMIT *)

\* Array.prototype.sort with comparator cmp (a stable sort): element i goes
\* after every element that compares lower and every equal one that precedes it.
stableSort(s, cmp(_, _)) ==
  LET n == Len(s)
      pos(i) == 1 + Cardinality({j \in 1..n :
                       cmp(s[j], s[i]) < 0 \/ (cmp(s[j], s[i]) = 0 /\ j < i)})
  IN [k \in 1..n |-> s[CHOOSE i \in 1..n : pos(i) = k]]

byRank(a, b) == a.rank - b.rank

currentOwner_(ros, pdga) ==
  IF pdga \in PDGAS THEN normalizeTeam_(ownerByPdgaOf(ros)[pdga]) ELSE ""

\* The pick loop of handleWaiverSubmit_: the error of the first rejected pick,
\* or "" with the cleaned picks.  A rank of 0 stands for every value that
\* Number() turns into 0 or NaN.
RECURSIVE CleanPicks(_, _, _, _, _)
CleanPicks(picks, i, cleaned, team, ros) ==
  IF i > Len(picks) THEN [error |-> "", cleaned |-> cleaned]
  ELSE
    LET p == picks[i]
        seenRanks == {cleaned[k].rank : k \in 1..Len(cleaned)}
        seenPdga == {cleaned[k].pdga : k \in 1..Len(cleaned)}
        owner == currentOwner_(ros, p.pdga)
    IN IF p.rank = 0 THEN CleanPicks(picks, i + 1, cleaned, team, ros)
       ELSE IF p.rank < RANK_MIN \/ p.rank > RANK_MAX
         THEN [error |-> "INVALID_RANK", cleaned |-> <<>>]
       ELSE IF p.pdga = "" \/ p.name = "" THEN CleanPicks(picks, i + 1, cleaned, team, ros)
       ELSE IF p.rank \in seenRanks THEN [error |-> "DUPLICATE_RANK", cleaned |-> <<>>]
       ELSE IF p.pdga \in seenPdga THEN [error |-> "DUPLICATE_PLAYER", cleaned |-> <<>>]
       ELSE IF p.pdga \notin PlayerPool THEN [error |-> "NOT_IN_PLAYERPOOL", cleaned |-> <<>>]
       ELSE IF owner # "" /\ owner # FREE_AGENT /\ owner # team
         THEN [error |-> "ALREADY_OWNED", cleaned |-> <<>>]
       ELSE CleanPicks(picks, i + 1, Append(cleaned, p), team, ros)

voidActiveRequestsForTeamCycle_(reqs, cycleId, team) ==
  [i \in 1..Len(reqs) |->
     IF reqs[i].cycleId = cycleId /\ normalizeTeam_(reqs[i].team) = team
        /\ reqs[i].status = "ACTIVE"
       THEN [reqs[i] EXCEPT !.status = "VOID"]
       ELSE reqs[i]]

RequestRow(cycleId, team, x) ==
  [cycleId |-> cycleId, team |-> team, rank |-> x.rank, pdga |-> x.pdga,
   name |-> x.name, status |-> "ACTIVE"]

SubmitFail(e) == [action |-> "WAIVER_SUBMIT", ok |-> FALSE, error |-> e]

handleWaiverSubmit_(reqs, ros, data) ==
  LET cycleId == data.cycleId
      team == normalizeTeam_(data.team)
      scan == CleanPicks(data.picks, 1, <<>>, team, ros)
      cleaned == stableSort(scan.cleaned, byRank)
      rows == [k \in 1..Len(cleaned) |-> RequestRow(cycleId, team, cleaned[k])]
  IN IF cycleId = "" THEN [requests |-> reqs, resp |-> SubmitFail("MISSING_CYCLEID")]
     ELSE IF team = "" THEN [requests |-> reqs, resp |-> SubmitFail("MISSING_TEAM")]
     ELSE IF data.picks = <<>> THEN [requests |-> reqs, resp |-> SubmitFail("NO_PICKS")]
     ELSE IF scan.error # "" THEN [requests |-> reqs, resp |-> SubmitFail(scan.error)]
     ELSE IF scan.cleaned = <<>> THEN [requests |-> reqs, resp |-> SubmitFail("NO_VALID_PICKS")]
     ELSE [requests |-> voidActiveRequestsForTeamCycle_(reqs, cycleId, team) \o rows,
           resp |-> [action |-> "WAIVER_SUBMIT", ok |-> TRUE, cycleId |-> cycleId,
                     team |-> team, picks |-> cleaned]]

DoPostWaiverSubmit(Inputs) ==
  /\ pc = "idle"
  /\ nreq < MaxRequests
  /\ \E data \in Inputs :
       LET r == handleWaiverSubmit_(requests, rosters, data)
       IN /\ requests' = r.requests
          /\ resp' = r.resp
          /\ lastReq' = data
  /\ nreq' = nreq + 1
  /\ UNCHANGED <<today, lineups, lineupHistory, scriptProperties, channel, cron, optedOut, sender, counters, accepted, bot, menu, statsFact, statsRes, cache, fan, twilio, lockHolder, exec, lookupSheets, draftBoard, transactions, rosters, standings, awardsLog, subs,
                 smsLog, pc, run, ranCycles>>

-----------------------------------------------------------------------------
(* 10) Waiver support loaders *)

\* A rank of 0 stands for null: the column is blank or holds no number > 0.
loadStandings_(rows) ==
  SelectSeq([i \in 1..Len(rows) |->
               [team |-> normalizeTeam_(rows[i].team),
                rank |-> IF rows[i].rank > 0 THEN rows[i].rank ELSE 0,
                points |-> rows[i].points]],
            LAMBDA s : s.team # "")

\* Variant: the lowest rank first.
cmpRank_ascending(a, b) ==
  IF a.rank - b.rank # 0 THEN a.rank - b.rank ELSE localeCompare(a.team, b.team)

cmpRank(a, b) ==
  IF b.rank - a.rank # 0 THEN b.rank - a.rank ELSE localeCompare(a.team, b.team)

cmpPoints(a, b) ==
  IF a.points - b.points # 0 THEN a.points - b.points ELSE localeCompare(a.team, b.team)

\* The sort of handleWaiverRun_: the waiver priority order.
orderStandings(st) ==
  LET hasRank == \E i \in 1..Len(st) : st[i].rank # 0
  IN IF hasRank THEN stableSort(st, cmpRank) ELSE stableSort(st, cmpPoints)

loadActiveWaiverRequestsByTeam_(reqs, cycleId) ==
  [t \in CanonSet |->
     stableSort(
       [k \in 1..Len(SelectSeq(reqs, LAMBDA r :
              r.cycleId = cycleId /\ r.status = "ACTIVE" /\ normalizeTeam_(r.team) = t
              /\ r.pdga # "" /\ r.name # "")) |->
          LET r == SelectSeq(reqs, LAMBDA q :
                     q.cycleId = cycleId /\ q.status = "ACTIVE" /\ normalizeTeam_(q.team) = t
                     /\ q.pdga # "" /\ q.name # "")[k]
          IN [rank |-> r.rank, pdga |-> r.pdga, name |-> r.name]],
       byRank)]

\* Variant: only AWARDED rows mark a cycle as posted.
cycleAlreadyAwarded_awardedOnly(awards, cycleId) ==
  \E i \in 1..Len(awards) : awards[i].cycleId = cycleId /\ awards[i].status = "AWARDED"

cycleAlreadyAwarded_(awards, cycleId) ==
  \E i \in 1..Len(awards) : awards[i].cycleId = cycleId

\* Variant: the status of the row is not looked at.
rollRequestsForCycle_anyStatus(reqs, cycleId) ==
  [i \in 1..Len(reqs) |->
     IF reqs[i].cycleId = cycleId THEN [reqs[i] EXCEPT !.status = "ROLLED"] ELSE reqs[i]]

rollRequestsForCycle_(reqs, cycleId) ==
  [i \in 1..Len(reqs) |->
     IF reqs[i].cycleId = cycleId /\ reqs[i].status = "ACTIVE"
       THEN [reqs[i] EXCEPT !.status = "ROLLED"]
       ELSE reqs[i]]

-----------------------------------------------------------------------------
(* 9) Waivers: WAIVER_RUN.  The request holds the script lock from            *)
(* WaiverRunBegin to WaiverFinish; pc walks the round loop.                   *)

NoPick == [rank |-> 0, pdga |-> "", name |-> ""]

\* Variant: ownership is not looked at.
isEligible_anyOwner(ownerByPdga, pdga) == TRUE

isEligible_(ownerByPdga, pdga) ==
  LET owner == IF pdga \in PDGAS THEN normalizeTeam_(ownerByPdga[pdga]) ELSE ""
  IN owner = "" \/ owner = FREE_AGENT

\* Variant: the loop does not look at awardedThisRun.
RECURSIVE ScanWishlist_noExclusion(_, _, _, _)
ScanWishlist_noExclusion(wishlist, cursor, awardedThisRun, ownerByPdga) ==
  IF cursor >= Len(wishlist) THEN [cursor |-> cursor, awarded |-> NoPick]
  ELSE
    LET pick == wishlist[cursor + 1]
    IN IF pick.pdga = "" \/ ~(ownerByPdga[pick.pdga] \in {"", FREE_AGENT})
         THEN ScanWishlist_noExclusion(wishlist, cursor + 1, awardedThisRun, ownerByPdga)
         ELSE [cursor |-> cursor + 1, awarded |-> pick]

\* The inner while loop: cursor counts the wishlist entries already consumed.
RECURSIVE ScanWishlist(_, _, _, _)
ScanWishlist(wishlist, cursor, awardedThisRun, ownerByPdga) ==
  IF cursor >= Len(wishlist) THEN [cursor |-> cursor, awarded |-> NoPick]
  ELSE
    LET pick == wishlist[cursor + 1]
    IN IF pick.pdga = "" \/ pick.pdga \in awardedThisRun
          \/ ~isEligible_(ownerByPdga, pick.pdga)
         THEN ScanWishlist(wishlist, cursor + 1, awardedThisRun, ownerByPdga)
         ELSE [cursor |-> cursor + 1, awarded |-> pick]

NoRun ==
  [cycleId |-> "", eventName |-> "", ordered |-> <<>>,
   requestsByTeam |-> [t \in CanonSet |-> <<>>],
   ownerByPdga |-> [p \in PDGAS |-> ""],
   awardedThisRun |-> {}, cursorByTeam |-> [t \in CanonSet |-> 0],
   awardRowsToAppend |-> <<>>, lines |-> <<>>,
   awardsByTeam |-> [t \in CanonSet |-> <<>>],
   round |-> 0, i |-> 0, awardsThisRound |-> 0, beforeRoundLineCount |-> 0]

RoundHeader(n) == [kind |-> "round", round |-> n, priority |-> 0, team |-> "", pdga |-> ""]

AwardLine(label, team, pdga) ==
  [kind |-> "award", round |-> 0, priority |-> label, team |-> team, pdga |-> pdga]

AwardRow(cycleId, team, label, pdga, status) ==
  [cycleId |-> cycleId, team |-> team, priority |-> label, pdga |-> pdga, status |-> status]

RunFail(e) == [action |-> "WAIVER_RUN", ok |-> FALSE, error |-> e]

Pending == [action |-> "PENDING"]

WaiverRunBegin(Inputs) ==
  /\ pc = "idle"
  /\ nreq < MaxRequests
  /\ \E data \in Inputs :
       LET cycleId == data.cycleId
           loaded == loadStandings_(standings)
           ordered == orderStandings(loaded)
       IN /\ lastReq' = data
          /\ IF cycleId = "" THEN
               resp' = RunFail("MISSING_CYCLEID") /\ UNCHANGED <<pc, run>>
             ELSE IF data.eventName = "" THEN
               resp' = RunFail("MISSING_EVENTNAME") /\ UNCHANGED <<pc, run>>
             ELSE IF cycleAlreadyAwarded_(awardsLog, cycleId) THEN
               /\ resp' = [action |-> "WAIVER_RUN", ok |-> TRUE, alreadyPosted |-> TRUE]
               /\ UNCHANGED <<pc, run>>
             ELSE IF loaded = <<>> THEN
               resp' = RunFail("STANDINGS_EMPTY") /\ UNCHANGED <<pc, run>>
             ELSE
               /\ resp' = Pending
               /\ pc' = "visit"
               /\ run' = [NoRun EXCEPT
                    !.cycleId = cycleId,
                    !.eventName = data.eventName,
                    !.ordered = ordered,
                    !.requestsByTeam = loadActiveWaiverRequestsByTeam_(requests, cycleId),
                    !.ownerByPdga = ownerByPdgaOf(rosters),
                    !.lines = <<RoundHeader(1)>>,
                    !.round = 1,
                    !.i = 1]
  /\ nreq' = nreq + 1
  /\ UNCHANGED <<today, lineups, lineupHistory, scriptProperties, channel, cron, optedOut, sender, counters, accepted, bot, menu, statsFact, statsRes, cache, fan, twilio, lockHolder, exec, lookupSheets, draftBoard, transactions, rosters, standings, requests, awardsLog,
                 subs, smsLog, ranCycles>>

\* One iteration of the for loop over ordered: the visit of ordered[i].
WaiverVisit ==
  /\ pc = "visit"
  /\ LET team == run.ordered[run.i].team
         teamCount == Len(run.ordered)
         label == teamCount - (run.i - 1)
         scan == ScanWishlist(run.requestsByTeam[team], run.cursorByTeam[team],
                              run.awardedThisRun, run.ownerByPdga)
         awarded == scan.awarded
     IN /\ run' =
             IF awarded # NoPick THEN
               [run EXCEPT
                  !.cursorByTeam[team] = scan.cursor,
                  !.awardsThisRound = @ + 1,
                  !.awardedThisRun = @ \cup {awarded.pdga},
                  !.awardRowsToAppend =
                      Append(@, AwardRow(run.cycleId, team, label, awarded.pdga, "AWARDED")),
                  !.lines = Append(@, AwardLine(label, team, awarded.pdga)),
                  !.awardsByTeam[team] = Append(@, awarded),
                  !.i = @ + 1]
             ELSE
               [run EXCEPT
                  !.cursorByTeam[team] = scan.cursor,
                  !.awardRowsToAppend =
                      IF run.round = 1
                        THEN Append(@, AwardRow(run.cycleId, team, label, "", "NO_VALID_PICK"))
                        ELSE @,
                  !.i = @ + 1]
        /\ pc' = IF run.i = teamCount THEN "roundEnd" ELSE "visit"
  /\ UNCHANGED <<today, lineups, lineupHistory, scriptProperties, channel, cron, optedOut, sender, counters, accepted, bot, menu, statsFact, statsRes, cache, fan, twilio, lockHolder, exec, lookupSheets, draftBoard, transactions, rosters, standings, requests, awardsLog,
                 subs, smsLog, lastReq, resp, ranCycles, nreq>>

\* Variant: a round without an award does not stop the loop.
WaiverRoundEnd_noBreak ==
  /\ pc = "roundEnd"
  /\ IF run.round + 1 <= MAX_ROUNDS THEN
       /\ run' = [run EXCEPT
            !.round = @ + 1,
            !.beforeRoundLineCount = Len(run.lines),
            !.lines = Append(@, RoundHeader(run.round + 1)),
            !.awardsThisRound = 0,
            !.i = 1]
       /\ pc' = "visit"
     ELSE
       /\ run' = [run EXCEPT !.round = @ + 1]
       /\ pc' = "finish"
  /\ UNCHANGED <<today, lineups, lineupHistory, scriptProperties, channel, cron, optedOut, sender, counters, accepted, bot, menu, statsFact, statsRes, cache, fan, twilio, lockHolder, exec, lookupSheets, draftBoard, transactions, rosters, standings, requests, awardsLog,
                 subs, smsLog, lastReq, resp, ranCycles, nreq>>

\* The end of one pass of the while loop: break, or start the next round.
WaiverRoundEnd ==
  /\ pc = "roundEnd"
  /\ IF run.awardsThisRound = 0 THEN
       /\ run' = [run EXCEPT
            !.lines = IF run.round > 1 THEN SubSeq(@, 1, run.beforeRoundLineCount) ELSE @]
       /\ pc' = "finish"
     ELSE IF run.round + 1 <= MAX_ROUNDS THEN
       /\ run' = [run EXCEPT
            !.round = @ + 1,
            !.beforeRoundLineCount = Len(run.lines),
            !.lines = Append(@, RoundHeader(run.round + 1)),
            !.awardsThisRound = 0,
            !.i = 1]
       /\ pc' = "visit"
     ELSE
       /\ run' = [run EXCEPT !.round = @ + 1]
       /\ pc' = "finish"
  /\ UNCHANGED <<today, lineups, lineupHistory, scriptProperties, channel, cron, optedOut, sender, counters, accepted, bot, menu, statsFact, statsRes, cache, fan, twilio, lockHolder, exec, lookupSheets, draftBoard, transactions, rosters, standings, requests, awardsLog,
                 subs, smsLog, lastReq, resp, ranCycles, nreq>>

AwardedOf(rows) == SelectSeq(rows, LAMBDA r : r.status = "AWARDED")

\* Variant: the requests are rolled only when the run awarded something.
WaiverFinish_rollIfAwards ==
  /\ pc = "finish"
  /\ awardsLog' = awardsLog \o run.awardRowsToAppend
  /\ requests' = IF AwardedOf(run.awardRowsToAppend) = <<>> THEN requests
                 ELSE rollRequestsForCycle_(requests, run.cycleId)
  /\ \E sent \in sendWaiverAwardAlerts_(subs, run.awardsByTeam) : smsLog' = smsLog \o sent
  /\ resp' = [action |-> "WAIVER_RUN", ok |-> TRUE, alreadyPosted |-> FALSE,
              cycleId |-> run.cycleId, eventName |-> run.eventName, lines |-> run.lines]
  /\ ranCycles' = ranCycles \cup {run.cycleId}
  /\ pc' = "idle"
  /\ run' = NoRun
  /\ UNCHANGED <<today, lineups, lineupHistory, scriptProperties, channel, cron, optedOut, sender, counters, accepted, bot, menu, statsFact, statsRes, cache, fan, twilio, lockHolder, exec, lookupSheets, draftBoard, transactions, rosters, standings, subs, lastReq, nreq>>

\* Variant: the run adds every awarded player to the team's roster.
WaiverFinish_autoAdd ==
  /\ pc = "finish"
  /\ awardsLog' = awardsLog \o run.awardRowsToAppend
  /\ requests' = rollRequestsForCycle_(requests, run.cycleId)
  /\ \E sent \in sendWaiverAwardAlerts_(subs, run.awardsByTeam) : smsLog' = smsLog \o sent
  /\ resp' = [action |-> "WAIVER_RUN", ok |-> TRUE, alreadyPosted |-> FALSE,
              cycleId |-> run.cycleId, eventName |-> run.eventName, lines |-> run.lines]
  /\ ranCycles' = ranCycles \cup {run.cycleId}
  /\ pc' = "idle"
  /\ run' = NoRun
  /\ transactions' = transactions \o
       [k \in 1..Len(AwardedOf(run.awardRowsToAppend)) |->
          TxRow("ADD", AwardedOf(run.awardRowsToAppend)[k].team,
                AwardedOf(run.awardRowsToAppend)[k].pdga, FREE_AGENT,
                AwardedOf(run.awardRowsToAppend)[k].team)]
  /\ rosters' = rebuildRosters(draftBoard, transactions')
  /\ UNCHANGED <<today, lineups, lineupHistory, scriptProperties, channel, cron, optedOut, sender, counters, accepted, bot, menu, statsFact, statsRes, cache, fan, twilio, lockHolder, exec, lookupSheets, draftBoard, standings, subs, lastReq, nreq>>

\* After the loop: append the award rows, roll the requests, send the SMS, answer.
WaiverFinish ==
  /\ pc = "finish"
  /\ awardsLog' = awardsLog \o run.awardRowsToAppend
  /\ requests' = rollRequestsForCycle_(requests, run.cycleId)
  /\ \E sent \in sendWaiverAwardAlerts_(subs, run.awardsByTeam) : smsLog' = smsLog \o sent
  /\ resp' = [action |-> "WAIVER_RUN", ok |-> TRUE, alreadyPosted |-> FALSE,
              cycleId |-> run.cycleId, eventName |-> run.eventName, lines |-> run.lines]
  /\ ranCycles' = ranCycles \cup {run.cycleId}
  /\ pc' = "idle"
  /\ run' = NoRun
  /\ UNCHANGED <<today, lineups, lineupHistory, scriptProperties, channel, cron, optedOut, sender, counters, accepted, bot, menu, statsFact, statsRes, cache, fan, twilio, lockHolder, exec, lookupSheets, draftBoard, transactions, rosters, standings, subs, lastReq, nreq>>

-----------------------------------------------------------------------------
(* Initial state and the requests the model feeds in *)

DraftNone == [p \in PDGAS |-> ""]

\* Exalted Evil drafted a full roster (nine fillers and p1), Ryan Morgan p3.
DraftFull ==
  [p \in PDGAS |->
     IF p \in Fillers \cup {"p1"} THEN "Exalted Evil"
     ELSE IF p = "p3" THEN "RYA"
     ELSE ""]

DraftChoices == {DraftNone, DraftFull}

StRow(team, rank, points) == [team |-> team, rank |-> rank, points |-> points]

\* Team A with 10 points, team B with 5, no rank column.
ScenarioStandings == << StRow("Exalted Evil", 0, 10), StRow("Ryan Morgan", 0, 5) >>

\* Every team ranked, one of them written with its shorthand.
RankedStandings ==
  << StRow("Exalted Evil", 1, 30), StRow("Ryan Morgan", 2, 20), StRow("SIR", 3, 10) >>

\* A tie on points; Ryan Morgan has no row.
TiedStandings == << StRow("Sir Krontzalot", 0, 5), StRow("Exalted Evil", 0, 5) >>

\* A tie on rank and a team without rank.
MixedStandings ==
  << StRow("Sir Krontzalot", 2, 0), StRow("Ryan Morgan", 0, 0), StRow("Exalted Evil", 2, 0) >>

\* One row whose team normalizeTeam_ does not know: loadStandings_ drops it.
UnknownTeamStandings == << StRow("Nobody", 0, 1) >>

StandingsChoices ==
  { ScenarioStandings, RankedStandings, TiedStandings, MixedStandings,
    UnknownTeamStandings }

SubRow(team, phone, enabled, freeAgents, waiverAwards, optOut) ==
  [team |-> team, phone |-> phone, enabled |-> enabled, freeAgents |-> freeAgents,
   waiverAwards |-> waiverAwards, optOut |-> optOut]

SubsInit ==
  << SubRow("Exalted Evil", "+15550000001", TRUE, TRUE, TRUE, FALSE),
     SubRow("Ryan Morgan", "+15550000002", FALSE, TRUE, TRUE, TRUE) >>

\* The bot handles no /trade command.
NoTrade ==
  [pos |-> "idle", sentAt |-> 0, teamA |-> "", pdgaA |-> "", teamB |-> "", pdgaB |-> "",
   first |-> 0, second |-> 0]

\* No upsertStatsFactRows_ call yet.
NoStatsRes ==
  [rows |-> <<>>, skipMissingStatId |-> TRUE, inserted |-> 0, updated |-> 0, skipped |-> 0,
   total |-> 0]

\* An execution that sends nothing: no call of a fan-out is left to it.
NoSend ==
  [pos |-> "idle", calls |-> <<>>, budget |-> 0, hourCur |-> 0, dayCur |-> 0, locked |-> FALSE]

\* No message was sent in this hour or on this day.
\* The ScoringConfig row of the event that is played: two days.
Event == [eventCode |-> "SFO", startDate |-> 1, endDate |-> 2]

\* runWaiverAwardsForEvent is not running.
NoCron == [pos |-> "idle", seq |-> 0, cycleId |-> "", result |-> <<>>, returned |-> "none"]

NoCount == [hour |-> 0, day |-> 0]
NoneAccepted == [hour |-> 0, day |-> 0, by |-> [p \in Fans |-> 0]]

\* An execution that is in no alert fan-out.
NoFan ==
  [kind |-> "", pos |-> "idle", i |-> 0, attempted |-> {}, threw |-> FALSE, reply |-> ""]

NoReq == [action |-> "NONE"]
NoResp == [action |-> "NONE"]

Cycles == {"c1", "c2"}

SeqsUpTo(S, n) == UNION {[1..k -> S] : k \in 1..n}

Pick(rank, pdga, name) == [rank |-> rank, pdga |-> pdga, name |-> name]

\* What the /waivers command sends: pick k carries rank k and no player is
\* named twice.  The wishlists are the leading picks of two orders of preference.
PreferenceOrders == { << "p1", "p2", "p3" >>, << "p2", "p1", "p3" >> }

BotPicks ==
  {[k \in 1..n |-> Pick(k, o[k], "n")] :
     o \in PreferenceOrders, n \in 1..(IF MaxPicks < Len(ActivePdgasSeq) THEN MaxPicks
                                        ELSE Len(ActivePdgasSeq))}

\* Both teams submit for cycle c1; c2 is a second cycle with one wishlist.
SubmitInputs ==
       [action : {"WAIVER_SUBMIT"}, cycleId : {"c1"}, team : {"Exalted Evil", "RYA"},
        picks : BotPicks]
  \cup [action : {"WAIVER_SUBMIT"}, cycleId : {"c2"}, team : {"Exalted Evil"},
        picks : {<< Pick(1, "p2", "n") >>}]

RunInputs ==
       [action : {"WAIVER_RUN"}, cycleId : Cycles, eventName : {"ev"}]
  \cup {[action |-> "WAIVER_RUN", cycleId |-> "", eventName |-> "ev"],
        [action |-> "WAIVER_RUN", cycleId |-> "c1", eventName |-> ""]}

TxData(type, team, pdga, name, fromTeam, toTeam, dropPdga, dropName, addPdga, addName, mode) ==
  [action |-> "TX", type |-> type, team |-> team, pdga |-> pdga, name |-> name,
   fromTeam |-> fromTeam, toTeam |-> toTeam, dropPdga |-> dropPdga, dropName |-> dropName,
   addPdga |-> addPdga, addName |-> addName, mode |-> mode]

TxInputs ==
       {TxData(ty, t, p, "n", "", "", "", "", "", "", "") :
          ty \in {"ADD", "DROP"}, t \in {"Exalted Evil", "RYA"}, p \in ActivePdgas}
  \cup {TxData("TRADE", t, p, "n", "", to, "", "", "", "", "") :
          t \in {"Exalted Evil", "RYA"}, to \in {"Exalted Evil", "Ryan Morgan"}, p \in ActivePdgas}
  \cup {TxData("SWAP", t, "", "", "", "", d, "n", a, "n", "") :
          t \in {"Exalted Evil", "RYA"}, d \in ActivePdgas, a \in ActivePdgas}

Init ==
  /\ draftBoard \in DraftChoices
  /\ transactions = <<>>
  /\ rosters = rebuildRosters(draftBoard, <<>>)
  /\ standings \in StandingsChoices
  /\ requests = <<>>
  /\ awardsLog = <<>>
  /\ subs = SubsInit
  /\ smsLog = <<>>
  /\ pc = "idle"
  /\ run = NoRun
  /\ lastReq = NoReq
  /\ resp = NoResp
  /\ ranCycles = {}
  /\ nreq = 0
  /\ lookupSheets = TRUE
  /\ lockHolder = 0
  /\ exec = [p \in Execs |-> "start"]
  /\ cache = {}
  /\ fan = [p \in Fans |-> NoFan]
  /\ twilio = {}
  /\ statsFact = <<>>
  /\ statsRes = NoStatsRes
  /\ bot = NoTrade
  /\ menu = "idle"
  /\ sender = [p \in Fans |-> NoSend]
  /\ optedOut = {}
  /\ lineups = <<>>
  /\ lineupHistory = <<>>
  /\ scriptProperties = {}
  /\ channel = <<>>
  /\ cron = NoCron
  /\ today = Event.startDate
  /\ counters = NoCount
  /\ accepted = NoneAccepted

Next ==
  \/ DoPostWaiverSubmit(SubmitInputs)
  \/ WaiverRunBegin(RunInputs)
  \/ WaiverVisit
  \/ WaiverRoundEnd
  \/ WaiverFinish

Spec == Init /\ [][Next]_vars

\* The transaction path alone; the standings play no part in it.
InitTx == Init /\ standings = ScenarioStandings

NextTx == DoPostTransaction(TxInputs)

SpecTx == InitTx /\ [][NextTx]_vars

\* WAIVER_SUBMIT alone, fed with picks as any client holding the secret can
\* send them: a rank of 0 (absent or not a number), out of range, a player not
\* in PlayerPool, a rostered player, a pick without pdga or without name.
WidePickSet ==
  { Pick(0, "p1", "n"), Pick(1, "p1", "n"), Pick(1, "p2", "n"), Pick(2, "p2", "n"),
    Pick(RANK_MAX + 1, "p2", "n"), Pick(1, "p9", "n"), Pick(2, "", "n"),
    Pick(2, "p2", "") }

WideSubmitInputs ==
       [action : {"WAIVER_SUBMIT"}, cycleId : {"c1"}, team : {"Exalted Evil", "RYA"},
        picks : SeqsUpTo(WidePickSet, MaxPicks) \cup {<<>>}]
  \cup [action : {"WAIVER_SUBMIT"}, cycleId : {"", "c2"}, team : {"Nobody", "EXA"},
        picks : {<< Pick(1, "p2", "n") >>}]

InitSubmit == Init /\ draftBoard = DraftFull /\ standings = ScenarioStandings

NextSubmit == DoPostWaiverSubmit(WideSubmitInputs)

SpecSubmit == InitSubmit /\ [][NextSubmit]_vars

\* A request that holds the script lock runs to its end: doPost returns only
\* after handleWaiverRun_ has returned.
RunStep == WaiverVisit \/ WaiverRoundEnd \/ WaiverFinish

InitFair == Init /\ standings = MixedStandings

FairSpec == InitFair /\ [][Next]_vars /\ WF_vars(RunStep)

-----------------------------------------------------------------------------
(* The ledger: transactions, the Rosters rebuild and the spreadsheet menu *)

\* A rebuild that replays the draft alone.
MenuRebuild_draftOnly ==
  /\ pc = "idle"
  /\ rosters' = IF lookupSheets THEN rebuildRosters(draftBoard, <<>>)
                ELSE RostersCleared
  /\ UNCHANGED <<today, lineups, lineupHistory, scriptProperties, channel, cron, optedOut, sender, counters, accepted, bot, menu, statsFact, statsRes, cache, fan, twilio, lockHolder, exec, lookupSheets, draftBoard, transactions, standings, requests, awardsLog,
                 subs, smsLog, pc, run, lastReq, resp, ranCycles, nreq>>

\* Menu item "Rebuild Rosters (Draft + Transactions)": rebuildRosters run by
\* hand, outside doPost.  The sheet is cleared before the MPO/FPO check.
MenuRebuild ==
  /\ pc = "idle"
  /\ rosters' = IF lookupSheets THEN rebuildRosters(draftBoard, transactions)
                ELSE RostersCleared
  /\ UNCHANGED <<today, lineups, lineupHistory, scriptProperties, channel, cron, optedOut, sender, counters, accepted, bot, menu, statsFact, statsRes, cache, fan, twilio, lockHolder, exec, lookupSheets, draftBoard, transactions, standings, requests, awardsLog,
                 subs, smsLog, pc, run, lastReq, resp, ranCycles, nreq>>

\* The league's spreadsheet loses its MPO or FPO sheet (renamed or deleted by
\* hand): from then on ss.getSheetByName returns null in rebuildRosters.
RemoveLookupSheet ==
  /\ pc = "idle"
  /\ lookupSheets
  /\ lookupSheets' = FALSE
  /\ UNCHANGED <<today, lineups, lineupHistory, scriptProperties, channel, cron, optedOut, sender, counters, accepted, bot, menu, statsFact, statsRes, cache, fan, twilio, lockHolder, exec, draftBoard, transactions, rosters, standings, requests, awardsLog,
                 subs, smsLog, pc, run, lastReq, resp, ranCycles, nreq>>

AddReq(team, pdga, name, toTeam, mode) ==
  TxData("ADD", team, pdga, name, "", toTeam, "", "", "", "", mode)

DropReq(team, pdga) == TxData("DROP", team, pdga, "n", "", "", "", "", "", "", "")

TradeReq(team, pdga, fromTeam, toTeam) ==
  TxData("TRADE", team, pdga, "n", fromTeam, toTeam, "", "", "", "", "")

SwapReq(team, dropPdga, addPdga, mode) ==
  TxData("SWAP", team, "", "", "", "", dropPdga, "n", addPdga, "n", mode)

\* Requests of every type, well formed and not, in commit and in validate mode.
LedgerInputs ==
  { AddReq("Exalted Evil", "p2", "n", "", ""),
    AddReq("RYA", "p2", "n", "", ""),
    AddReq("RYA", "p1", "n", "", ""),
    TxData("DROP", "Exalted Evil", "p1", "n", "", "", "", "", "", "", "validate"),
    DropReq("Exalted Evil", "p1"),
    TradeReq("RYA", "p3", "", "Exalted Evil"),
    TradeReq("RYA", "p1", "Exalted Evil", "Exalted Evil"),
    SwapReq("Exalted Evil", "p1", "p2", ""),
    SwapReq("Exalted Evil", "p1", "p1", ""),
    SwapReq("RYA", "p3", "p2", ""),
    TxData("", "Exalted Evil", "p2", "n", "", "", "", "", "", "", "") }

NextLedger == DoPostTransaction(LedgerInputs) \/ MenuRebuild

SpecLedger == InitTx /\ [][NextLedger]_vars

\* The same path while the MPO or FPO sheet can go missing.
CfgInputs ==
  { AddReq("RYA", "p2", "n", "", ""),
    AddReq("RYA", "p1", "n", "", ""),
    DropReq("Exalted Evil", "p1"),
    SwapReq("Exalted Evil", "p1", "p2", ""),
    AddReq("RYA", "p2", "n", "", "validate") }

NextCfg == DoPostTransaction(CfgInputs) \/ RemoveLookupSheet

SpecCfg == InitTx /\ [][NextCfg]_vars

\* The fold alone: Rosters was built from the draft, the Transactions sheet
\* holds any history of these rows (rows a DROP does not match included), and
\* the rebuild replays it.
FoldRows ==
  { TxRow("DROP", "RYA", "p1", "", ""),
    TxRow("DROP", "Exalted Evil", "p1", "", ""),
    TxRow("DROP", "Exalted Evil", "p2", "", ""),
    TxRow("DROP", "RYA", "p3", "Exalted Evil", ""),
    TxRow("ADD", "RYA", "p2", "", ""),
    TxRow("TRADE", "Exalted Evil", "p1", "Exalted Evil", "Ryan Morgan") }

InitFold ==
  /\ draftBoard \in DraftChoices
  /\ transactions \in SeqsUpTo(FoldRows, MaxRequests) \cup {<<>>}
  /\ rosters = rebuildRosters(draftBoard, <<>>)
  /\ standings = ScenarioStandings
  /\ requests = <<>>
  /\ awardsLog = <<>>
  /\ subs = SubsInit
  /\ smsLog = <<>>
  /\ pc = "idle"
  /\ run = NoRun
  /\ lastReq = NoReq
  /\ resp = NoResp
  /\ ranCycles = {}
  /\ nreq = 0
  /\ lookupSheets = TRUE
  /\ lockHolder = 0
  /\ exec = [p \in Execs |-> "start"]
  /\ cache = {}
  /\ fan = [p \in Fans |-> NoFan]
  /\ twilio = {}
  /\ statsFact = <<>>
  /\ statsRes = NoStatsRes
  /\ bot = NoTrade
  /\ menu = "idle"
  /\ sender = [p \in Fans |-> NoSend]
  /\ optedOut = {}
  /\ lineups = <<>>
  /\ lineupHistory = <<>>
  /\ scriptProperties = {}
  /\ channel = <<>>
  /\ cron = NoCron
  /\ today = Event.startDate
  /\ counters = NoCount
  /\ accepted = NoneAccepted

NextFold == MenuRebuild

SpecFold == InitFold /\ [][NextFold]_vars

-----------------------------------------------------------------------------
(* 12) doPost and the script lock, with several executions at once *)

sheetVars == <<today, lineups, lineupHistory, scriptProperties, channel, cron, optedOut, sender, counters, accepted, bot, menu, statsFact, statsRes, cache, fan, twilio, lookupSheets, draftBoard, transactions, rosters, standings, requests,
               awardsLog, subs, smsLog, pc, run, lastReq, resp, ranCycles, nreq>>

\* waitLock taken out: the body is entered at once.
ExecWaitLock_noWait(p) ==
  /\ exec[p] = "start"
  /\ lockHolder' = p
  /\ exec' = [exec EXCEPT ![p] = "open"]
  /\ UNCHANGED sheetVars

\* lock.waitLock(25000): the execution gets the lock when it is free; while
\* another execution holds it the call may run into its timeout and throw.
ExecWaitLock(p) ==
  /\ exec[p] = "start"
  /\ IF lockHolder = 0
       THEN lockHolder' = p /\ exec' = [exec EXCEPT ![p] = "open"]
       ELSE lockHolder' = lockHolder /\ exec' = [exec EXCEPT ![p] = "lockTimeout"]
  /\ UNCHANGED sheetVars

\* getSS_() and getSheetByName(WebhookLog) || insertSheet(...), before the try:
\* either both succeed or one throws and doPost is left by the exception.
ExecOpenSheets(p) ==
  /\ exec[p] = "open"
  /\ \E ok \in BOOLEAN : exec' = [exec EXCEPT ![p] = IF ok THEN "try" ELSE "thrown"]
  /\ UNCHANGED <<lockHolder, sheetVars>>

\* The try block: the handler returns its response or throws into the catch.
ExecTry(p) ==
  /\ exec[p] = "try"
  /\ \E threw \in BOOLEAN : exec' = [exec EXCEPT ![p] = IF threw THEN "catch" ELSE "finallyOk"]
  /\ UNCHANGED <<lockHolder, sheetVars>>

\* The catch block: log.appendRow and the error response; if appendRow throws
\* in turn the finally block still runs and the exception leaves doPost.
ExecCatch(p) ==
  /\ exec[p] = "catch"
  /\ \E threw \in BOOLEAN :
       exec' = [exec EXCEPT ![p] = IF threw THEN "finallyThrow" ELSE "finallyError"]
  /\ UNCHANGED <<lockHolder, sheetVars>>

\* finally { lock.releaseLock(); }
ExecFinally(p) ==
  /\ exec[p] \in {"finallyOk", "finallyError", "finallyThrow"}
  /\ lockHolder' = 0
  /\ exec' = [exec EXCEPT ![p] = CASE exec[p] = "finallyOk" -> "returnedOk"
                                    [] exec[p] = "finallyError" -> "returnedError"
                                    [] OTHER -> "failed"]
  /\ UNCHANGED sheetVars

\* The execution that left doPost by an exception ends; Apps Script frees the
\* locks of an execution that has ended.
ExecEnd(p) ==
  /\ exec[p] = "thrown"
  /\ lockHolder' = IF lockHolder = p THEN 0 ELSE lockHolder
  /\ exec' = [exec EXCEPT ![p] = "ended"]
  /\ UNCHANGED sheetVars

NextLock ==
  \E p \in Execs :
    \/ ExecWaitLock(p)
    \/ ExecOpenSheets(p)
    \/ ExecTry(p)
    \/ ExecCatch(p)
    \/ ExecFinally(p)
    \/ ExecEnd(p)

InitLock == InitTx /\ draftBoard = DraftFull

SpecLock == InitLock /\ [][NextLock]_vars

-----------------------------------------------------------------------------
(* 13) Alert fan-out: the loop over the subscribers, sendSmsAlert_ and the    *)
(* script cache, one step per call that another execution can overtake        *)

\* Every team subscribed to every alert.
SmsSubs ==
  << SubRow("Exalted Evil", "+15550000001", TRUE, TRUE, TRUE, FALSE),
     SubRow("Ryan Morgan", "+15550000002", TRUE, TRUE, TRUE, FALSE) >>

\* WaiverAwards is sent by WAIVER_RUN and FreeAgents by a DROP or SWAP commit,
\* both inside doPost; Withdrawals is sent by updateAllEvents, which a time
\* trigger and the menu start and which takes no lock.
DoPostAlerts == {"WaiverAwards", "FreeAgents"}
AlertKinds == DoPostAlerts \cup {"Withdrawals"}

\* The player whose registration was withdrawn.
WithdrawnPdga == "p1"

\* The subscribers a fan-out sends to.  Every team is taken to have an award;
\* a withdrawal goes to the owner of the player (Withdrawals = TRUE).
AlertTargets(kind) ==
  SelectSeq(loadAlertSubscriptions_(subs),
            LAMBDA s : /\ s.enabled /\ ~s.optOut
                       /\ (kind = "WaiverAwards" => s.waiverAwards)
                       /\ (kind = "FreeAgents" => s.freeAgents)
                       /\ (kind = "Withdrawals" =>
                             s.team = normalizeTeam_(ownerByPdgaOf(rosters)[WithdrawnPdga])))

\* The dedupe key: alert type, team and what the alert is about.  A WAIVER_RUN
\* awards a cycle once, so two runs never share cycleId; the same drop or the
\* same withdrawal can be met by more than one execution.
DedupeKey(kind, team, p) == <<kind, team, IF kind = "WaiverAwards" THEN p ELSE 0>>

FanKey(p) == DedupeKey(fan[p].kind, AlertTargets(fan[p].kind)[fan[p].i].team, p)

SmsLogRow(p, status) ==
  [team |-> AlertTargets(fan[p].kind)[fan[p].i].team, alertType |-> fan[p].kind,
   status |-> status]

smsVars == <<today, lineups, lineupHistory, scriptProperties, channel, cron, optedOut, sender, counters, accepted, bot, menu, statsFact, statsRes, lookupSheets, draftBoard, transactions, rosters, standings, requests,
             awardsLog, subs, pc, run, lastReq, resp, ranCycles, nreq, exec>>

\* An exception inside the loop leaves it: the try around the whole fan-out
\* catches it (WAIVER_RUN, the commit, the per-event try of updateAllEvents).
FanThrow(p) == fan' = [fan EXCEPT ![p].threw = TRUE, ![p].pos = "caught"]

FanNextTarget(p) == fan' = [fan EXCEPT ![p].i = @ + 1, ![p].pos = "loop"]

\* The fan-out begins; inside doPost the execution holds the script lock.
FanStart(p) ==
  /\ fan[p].pos = "idle"
  /\ \E kind \in AlertKinds :
       /\ fan' = [fan EXCEPT ![p] = [NoFan EXCEPT !.kind = kind, !.pos = "loop", !.i = 1]]
       /\ IF kind \in DoPostAlerts
            THEN lockHolder = 0 /\ lockHolder' = p
            ELSE UNCHANGED lockHolder
  /\ UNCHANGED <<cache, twilio, smsLog>>
  /\ UNCHANGED smsVars

\* A hit is logged as SKIPPED, unless the log write throws.
SmsSkipDuplicate(p) ==
  \/ /\ smsLog' = Append(smsLog, SmsLogRow(p, "SKIPPED"))
     /\ fan' = [fan EXCEPT ![p].attempted = @ \cup {fan[p].i}, ![p].i = @ + 1]
  \/ /\ fan' = [fan EXCEPT ![p].attempted = @ \cup {fan[p].i},
                            ![p].threw = TRUE, ![p].pos = "caught"]
     /\ UNCHANGED smsLog

\* sendSmsAlert_ is called for the next subscriber; smsDedupeHit_ looks the
\* key up.
SmsDedupeGet(p) ==
  /\ fan[p].pos = "loop"
  /\ fan[p].i <= Len(AlertTargets(fan[p].kind))
  /\ IF FanKey(p) \in cache
       THEN SmsSkipDuplicate(p)
       ELSE /\ fan' = [fan EXCEPT ![p].attempted = @ \cup {fan[p].i}, ![p].pos = "miss"]
            /\ UNCHANGED smsLog
  /\ UNCHANGED <<cache, lockHolder, twilio>>
  /\ UNCHANGED smsVars

\* smsDedupeHit_ after a miss: the key is put.
SmsDedupePut(p) ==
  /\ fan[p].pos = "miss"
  /\ cache' = cache \cup {FanKey(p)}
  /\ fan' = [fan EXCEPT ![p].pos = "fetch"]
  /\ UNCHANGED <<lockHolder, twilio, smsLog>>
  /\ UNCHANGED smsVars

SmsLogged(p, status) == smsLog' = Append(smsLog, SmsLogRow(p, status)) /\ FanNextTarget(p)

SmsThrown(p) == FanThrow(p) /\ UNCHANGED smsLog

\* twilioSendSmsOnce_ and the log row that follows it.  The HTTP call throws,
\* or the provider refuses (logged as ERROR), or it accepts (logged as SENT);
\* the log write can throw as well.
TwilioSend(p) ==
  /\ fan[p].pos = "fetch"
  /\ \/ SmsThrown(p) /\ UNCHANGED twilio
     \/ (SmsLogged(p, "ERROR") \/ SmsThrown(p)) /\ UNCHANGED twilio
     \/ /\ twilio' = twilio \cup {[key |-> FanKey(p), by |-> p]}
        /\ (SmsLogged(p, "SENT") \/ SmsThrown(p))
  /\ UNCHANGED <<cache, lockHolder>>
  /\ UNCHANGED smsVars

\* The loop is over or was left by an exception: the caller goes on and, in
\* doPost, answers and releases the lock.
FanEnd(p) ==
  /\ \/ fan[p].pos = "loop" /\ fan[p].i > Len(AlertTargets(fan[p].kind))
     \/ fan[p].pos = "caught"
  /\ fan' = [fan EXCEPT ![p].pos = "done", ![p].reply = "ok"]
  /\ lockHolder' = IF lockHolder = p THEN 0 ELSE lockHolder
  /\ UNCHANGED <<cache, twilio, smsLog>>
  /\ UNCHANGED smsVars

NextSms ==
  \E p \in Fans :
    \/ FanStart(p)
    \/ SmsDedupeGet(p)
    \/ SmsDedupePut(p)
    \/ TwilioSend(p)
    \/ FanEnd(p)

InitSms ==
  /\ draftBoard = DraftFull
  /\ transactions = <<>>
  /\ rosters = rebuildRosters(draftBoard, <<>>)
  /\ standings = ScenarioStandings
  /\ requests = <<>>
  /\ awardsLog = <<>>
  /\ subs = SmsSubs
  /\ smsLog = <<>>
  /\ pc = "idle"
  /\ run = NoRun
  /\ lastReq = NoReq
  /\ resp = NoResp
  /\ ranCycles = {}
  /\ nreq = 0
  /\ lookupSheets = TRUE
  /\ lockHolder = 0
  /\ exec = [p \in Execs |-> "start"]
  /\ cache = {}
  /\ fan = [p \in Fans |-> NoFan]
  /\ twilio = {}
  /\ statsFact = <<>>
  /\ statsRes = NoStatsRes
  /\ bot = NoTrade
  /\ menu = "idle"
  /\ sender = [p \in Fans |-> NoSend]
  /\ optedOut = {}
  /\ lineups = <<>>
  /\ lineupHistory = <<>>
  /\ scriptProperties = {}
  /\ channel = <<>>
  /\ cron = NoCron
  /\ today = Event.startDate
  /\ counters = NoCount
  /\ accepted = NoneAccepted

SpecSms == InitSms /\ [][NextSms]_vars

-----------------------------------------------------------------------------
(* 14) StatsFact: the composite key and the upsert *)

\* String(x).trim() on the field values the model feeds in.
Trim(s) == IF s = "SFO " THEN "SFO" ELSE s

\* String(x).trim().toUpperCase() on the same values.
TrimUpper(s) == IF s \in {"sfo", "SFO "} THEN "SFO" ELSE ToUpperCase(s)

\* The fields joined with "|", kept as a tuple.
buildStatsFactKey_(season, eventCode, tournId, division, pdgaNumber, statId) ==
  <<Trim(season), TrimUpper(eventCode), Trim(tournId), TrimUpper(division),
    Trim(pdgaNumber), Trim(statId)>>

\* A sheet row without content.
BlankFact ==
  [Season |-> "", EventCode |-> "", TournID |-> "", Division |-> "", PdgaNumber |-> "",
   StatId |-> "", Value |-> "", PulledAt |-> 0, Key |-> <<>>]

\* An input object; StatName, Units and Source are copied like Value.
FactInput(eventCode, pdgaNumber, statId, value) ==
  [Season |-> "2025", EventCode |-> eventCode, TournID |-> "97685", Division |-> "MPO",
   PdgaNumber |-> pdgaNumber, StatId |-> statId, Value |-> value]

\* The required fields are there.
HasRequired(r) ==
  r.Season # "" /\ r.EventCode # "" /\ r.TournID # "" /\ r.Division # "" /\ r.PdgaNumber # ""

rowDataOf(r, nowIso) ==
  [Season |-> Trim(r.Season), EventCode |-> TrimUpper(r.EventCode),
   TournID |-> Trim(r.TournID), Division |-> TrimUpper(r.Division),
   PdgaNumber |-> Trim(r.PdgaNumber), StatId |-> Trim(r.StatId), Value |-> r.Value,
   PulledAt |-> nowIso,
   Key |-> buildStatsFactKey_(r.Season, r.EventCode, r.TournID, r.Division,
                              r.PdgaNumber, r.StatId)]

MapSet(f, k, v) == [x \in DOMAIN f \cup {k} |-> IF x = k THEN v ELSE f[x]]

MaxOf(S) == CHOOSE m \in S : \A x \in S : x <= m

\* getLastRow(): the header row and the rows down to the last one with content.
getLastRow(sheet) == Len(sheet) + 1

\* key -> sheet row of the rows read at the start; the last row of a key wins.
ExistingKeyRows(sheet) ==
  [k \in {sheet[i].Key : i \in 1..Len(sheet)} \ {<<>>} |->
     1 + MaxOf({i \in 1..Len(sheet) : sheet[i].Key = k})]

\* Variant: a row without StatId is taken whatever the options say.
UpsertRow_statIdOptional(acc, r, skipMissingStatId, lastRow, nowIso) ==
  IF ~HasRequired(r) THEN [acc EXCEPT !.skipped = @ + 1]
  ELSE
    LET rowData == rowDataOf(r, nowIso)
    IN IF rowData.Key \in DOMAIN acc.keyToSheetRow
         THEN [acc EXCEPT !.updatesByRow = MapSet(@, acc.keyToSheetRow[rowData.Key], rowData),
                          !.updated = @ + 1]
         ELSE [acc EXCEPT !.appends = Append(@, rowData),
                          !.inserted = @ + 1,
                          !.keyToSheetRow =
                              MapSet(@, rowData.Key, (lastRow + 1) + (Len(acc.appends) + 1 - 1))]

\* One pass of the loop over the input rows.
UpsertRow(acc, r, skipMissingStatId, lastRow, nowIso) ==
  IF ~HasRequired(r) THEN [acc EXCEPT !.skipped = @ + 1]
  ELSE IF skipMissingStatId /\ r.StatId = "" THEN [acc EXCEPT !.skipped = @ + 1]
  ELSE
    LET rowData == rowDataOf(r, nowIso)
    IN IF rowData.Key \in DOMAIN acc.keyToSheetRow
         THEN [acc EXCEPT !.updatesByRow = MapSet(@, acc.keyToSheetRow[rowData.Key], rowData),
                          !.updated = @ + 1]
         ELSE [acc EXCEPT !.appends = Append(@, rowData),
                          !.inserted = @ + 1,
                          !.keyToSheetRow =
                              MapSet(@, rowData.Key, (lastRow + 1) + (Len(acc.appends) + 1 - 1))]

RECURSIVE UpsertLoop(_, _, _, _, _, _)
UpsertLoop(acc, rows, k, skipMissingStatId, lastRow, nowIso) ==
  IF k > Len(rows) THEN acc
  ELSE UpsertLoop(UpsertRow(acc, rows[k], skipMissingStatId, lastRow, nowIso),
                  rows, k + 1, skipMissingStatId, lastRow, nowIso)

\* The update writes: every row number of updatesByRow receives its row, also
\* one below the last row with content.
WriteUpdates(sheet, updatesByRow) ==
  LET last == MaxOf({Len(sheet)} \cup {n - 1 : n \in DOMAIN updatesByRow})
  IN [i \in 1..last |->
        IF i + 1 \in DOMAIN updatesByRow THEN updatesByRow[i + 1]
        ELSE IF i <= Len(sheet) THEN sheet[i]
        ELSE BlankFact]

\* The append write: the new rows go below getLastRow() as it is by then.
WriteAppends(sheet, appends) == sheet \o appends

\* upsertStatsFactRows_: the sheet it leaves and the counts it returns.
upsertStatsFactRows_(sheet, rows, skipMissingStatId, nowIso) ==
  LET acc0 == [keyToSheetRow |-> ExistingKeyRows(sheet), updatesByRow |-> <<>>,
               appends |-> <<>>, inserted |-> 0, updated |-> 0, skipped |-> 0]
      acc == UpsertLoop(acc0, rows, 1, skipMissingStatId, getLastRow(sheet), nowIso)
  IN [sheet |-> WriteAppends(WriteUpdates(sheet, acc.updatesByRow), acc.appends),
      inserted |-> acc.inserted, updated |-> acc.updated, skipped |-> acc.skipped,
      total |-> acc.inserted + acc.updated + acc.skipped]

\* The input rows the model feeds in: two players, the same fact written in
\* lower case with another value, a row without StatId, a row without EventCode.
StatRows ==
  { FactInput("SFO", "35449", "C1X_PCT", "78.3"),
    FactInput("sfo", "35449", "C1X_PCT", "80"),
    FactInput("SFO", "100000", "C1X_PCT", "78.3"),
    FactInput("SFO", "35449", "", "1"),
    FactInput("", "35449", "C1X_PCT", "78.3") }

StatBatches == {<<>>} \cup {<<r>> : r \in StatRows} \cup {<<r, q>> : r \in StatRows, q \in StatRows}

statsVars == <<today, lineups, lineupHistory, scriptProperties, channel, cron, optedOut, sender, counters, accepted, bot, menu, cache, fan, twilio, lockHolder, exec, lookupSheets, draftBoard,
               transactions, rosters, standings, requests, awardsLog, subs, smsLog, pc,
               run, lastReq, resp, ranCycles>>

\* One call of upsertStatsFactRows_; PulledAt is the number of the call.
UpsertStatsFact ==
  /\ nreq < MaxUpserts
  /\ \E rows \in StatBatches, skipMissingStatId \in BOOLEAN :
       LET res == upsertStatsFactRows_(statsFact, rows, skipMissingStatId, nreq + 1)
       IN IF rows = <<>>
            THEN /\ statsRes' = [NoStatsRes EXCEPT !.skipMissingStatId = skipMissingStatId]
                 /\ UNCHANGED statsFact
            ELSE /\ statsFact' = res.sheet
                 /\ statsRes' = [rows |-> rows, skipMissingStatId |-> skipMissingStatId,
                                 inserted |-> res.inserted, updated |-> res.updated,
                                 skipped |-> res.skipped, total |-> res.total]
  /\ nreq' = nreq + 1
  /\ UNCHANGED statsVars

NextStats == UpsertStatsFact

SpecStats == InitLock /\ [][NextStats]_vars

-----------------------------------------------------------------------------
(* 15) The bot: /trade posts two TRADE requests, one after the other *)

\* What /trade was called with: team_a, player_a, team_b, player_b.  The bot
\* refuses team_a = team_b; the players are any the autocomplete offers.
TradeCommands ==
  { [teamA |-> "Exalted Evil", pdgaA |-> "p1", teamB |-> "Ryan Morgan", pdgaB |-> "p3"],
    [teamA |-> "Exalted Evil", pdgaA |-> "p1", teamB |-> "Ryan Morgan", pdgaB |-> "p2"],
    [teamA |-> "Ryan Morgan", pdgaA |-> "p2", teamB |-> "Exalted Evil", pdgaB |-> "p1"] }

\* What other members send while the command runs.
OtherTxInputs == { DropReq("Ryan Morgan", "p3"), AddReq("Ryan Morgan", "p2", "n", "", "") }

\* The body of the post the command is waiting for.
TradeBody ==
  IF bot.pos = "sent1"
    THEN TradeReq(bot.teamA, bot.pdgaA, bot.teamA, bot.teamB)
    ELSE TradeReq(bot.teamB, bot.pdgaB, bot.teamB, bot.teamA)

tradeVars == <<today, lineups, lineupHistory, scriptProperties, channel, cron, optedOut, sender, counters, accepted, menu, statsFact, statsRes, cache, fan, twilio, lockHolder, exec, lookupSheets,
               draftBoard, transactions, rosters, standings, requests, awardsLog, subs,
               smsLog, pc, run, lastReq, resp, ranCycles, nreq>>

\* The command starts and sends its first post.
TradeCommand ==
  /\ bot.pos = "idle"
  /\ nreq < MaxRequests
  /\ \E c \in TradeCommands :
       bot' = [NoTrade EXCEPT !.pos = "sent1", !.sentAt = nreq, !.teamA = c.teamA,
                              !.pdgaA = c.pdgaA, !.teamB = c.teamB, !.pdgaB = c.pdgaB]
  /\ UNCHANGED tradeVars

\* doPost serves the post the command is waiting for.
TradeServe ==
  /\ bot.pos \in {"sent1", "sent2"}
  /\ nreq = bot.sentAt
  /\ DoPostTransaction({TradeBody})

\* await postTransactionRow returns or throws: postJson_ throws on ok = false
\* and the command ends in its catch block.
TradeReceive ==
  /\ bot.pos \in {"sent1", "sent2"}
  /\ nreq = bot.sentAt + 1
  /\ bot' = IF ~resp.ok THEN [bot EXCEPT !.pos = "failed"]
            ELSE IF bot.pos = "sent1"
              THEN [bot EXCEPT !.pos = "between", !.first = Len(transactions)]
              ELSE [bot EXCEPT !.pos = "done", !.second = Len(transactions)]
  /\ UNCHANGED tradeVars

\* The second post is sent.
TradeSecond ==
  /\ bot.pos = "between"
  /\ nreq < MaxRequests
  /\ bot' = [bot EXCEPT !.pos = "sent2", !.sentAt = nreq]
  /\ UNCHANGED tradeVars

\* A request of another member is served; none is served while an answer is
\* on its way to the command.
OtherTx ==
  /\ bot.pos \in {"idle", "between", "done", "failed"}
  /\ DoPostTransaction(OtherTxInputs)

NextTrade == TradeCommand \/ TradeServe \/ TradeReceive \/ TradeSecond \/ OtherTx

SpecTrade == InitLock /\ [][NextTrade]_vars

-----------------------------------------------------------------------------
(* 16) Rebuild Rosters from the menu, step by step: it takes no lock, so a    *)
(* doPost can be served between its clear and its write                       *)

menuVars == <<today, lineups, lineupHistory, scriptProperties, channel, cron, optedOut, sender, counters, accepted, bot, statsFact, statsRes, cache, fan, twilio, lockHolder, exec, lookupSheets,
              draftBoard, transactions, standings, requests, awardsLog, subs, smsLog, pc,
              run, lastReq, resp, ranCycles, nreq>>

\* rosterSheet.clearContents(), made visible by the reads that follow it.
MenuClear ==
  /\ menu = "idle"
  /\ rosters' = RostersCleared
  /\ menu' = "cleared"
  /\ UNCHANGED menuVars

\* The DraftBoard and Transactions reads, the fold and the write of the rows.
MenuWrite ==
  /\ menu = "cleared"
  /\ rosters' = IF lookupSheets THEN rebuildRosters(draftBoard, transactions)
                ELSE RostersCleared
  /\ menu' = "idle"
  /\ UNCHANGED menuVars

\* Requests that read the ownership of p1, a player of Exalted Evil.
MenuTxInputs == { AddReq("Ryan Morgan", "p1", "n", "", ""), DropReq("Exalted Evil", "p1") }

MenuSubmitInputs ==
  { [action |-> "WAIVER_SUBMIT", cycleId |-> "c1", team |-> "Ryan Morgan",
     picks |-> << Pick(1, "p1", "n") >>] }

NextMenu ==
  \/ MenuClear
  \/ MenuWrite
  \/ DoPostTransaction(MenuTxInputs)
  \/ DoPostWaiverSubmit(MenuSubmitInputs)

SpecMenu == InitLock /\ [][NextMenu]_vars

-----------------------------------------------------------------------------
(* 17) sendSmsAlert_ call by call: the per-invocation budget, the dedupe key  *)
(* and the hour and day counters of the script cache                          *)

SMS_MAX_SENDS_PER_INVOCATION == 15
SMS_MAX_SENDS_PER_HOUR == 40
SMS_MAX_SENDS_PER_DAY == 100

capVars == <<today, lineups, lineupHistory, scriptProperties, channel, cron, optedOut, bot, menu, statsFact, statsRes, fan, twilio, exec, lookupSheets, draftBoard,
             transactions, rosters, standings, requests, awardsLog, subs, pc, run, lastReq,
             resp, ranCycles, nreq>>

\* The dedupe key of the message the execution is at.
Message(s) == s.calls[1][1]

\* The loop goes to the next subscriber or player; when the fan-out function
\* returns, the next one starts with a budget of its own (newSmsBudget_).
NextMessage(s) ==
  LET rest == Tail(s.calls[1])
  IN IF rest = <<>>
       THEN [s EXCEPT !.pos = "loop", !.calls = Tail(@), !.budget = 0]
       ELSE [s EXCEPT !.pos = "loop", !.calls = <<rest>> \o Tail(@)]

appendSmsLog_(log, key, status, error) ==
  Append(log, [key |-> key, status |-> status, error |-> error])

\* An execution starts: a doPost request, which holds the script lock and
\* calls one fan-out function, or updateAllEvents, which takes no lock and
\* calls updateRegistrationColumnByPdgaFromStatusMap_ once per event and sheet.
SendStart(p, Work) ==
  /\ sender[p].pos = "idle"
  /\ \E w \in Work :
       /\ IF w.doPost THEN lockHolder = 0 /\ lockHolder' = p ELSE UNCHANGED lockHolder
       /\ sender' = [sender EXCEPT ![p] = [NoSend EXCEPT !.pos = "loop", !.calls = w.calls,
                                                          !.locked = w.doPost]]
  /\ UNCHANGED <<cache, counters, accepted, smsLog>>
  /\ UNCHANGED capVars

\* sendSmsAlert_, steps 1 and 2: the budget of the invocation, then the
\* lookup of the dedupe key.
SendGate(p) ==
  LET s == sender[p]
  IN /\ s.pos = "loop" /\ s.calls # <<>>
     /\ IF s.budget >= SMS_MAX_SENDS_PER_INVOCATION THEN
          /\ smsLog' = appendSmsLog_(smsLog, Message(s), "ERROR", "INVOCATION_CAP_REACHED")
          /\ sender' = [sender EXCEPT ![p] = NextMessage(s)]
        ELSE IF Message(s) \in cache THEN
          /\ smsLog' = appendSmsLog_(smsLog, Message(s), "SKIPPED", "DUPLICATE_SUPPRESSED")
          /\ sender' = [sender EXCEPT ![p] = NextMessage(s)]
        ELSE
          /\ sender' = [sender EXCEPT ![p].pos = "miss"]
          /\ UNCHANGED smsLog
     /\ UNCHANGED <<cache, counters, accepted, lockHolder>>
     /\ UNCHANGED capVars

\* The key is put without waiting for the send.
SendCaps_putOnSend(p) ==
  LET s == sender[p]
  IN /\ s.pos = "miss"
     /\ cache' = IF counters.hour >= SMS_MAX_SENDS_PER_HOUR \/ counters.day >= SMS_MAX_SENDS_PER_DAY
                   THEN cache ELSE cache \cup {Message(s)}
     /\ IF counters.hour >= SMS_MAX_SENDS_PER_HOUR THEN
          /\ smsLog' = appendSmsLog_(smsLog, Message(s), "ERROR", "HOUR_CAP_REACHED")
          /\ sender' = [sender EXCEPT ![p] = NextMessage(s)]
        ELSE IF counters.day >= SMS_MAX_SENDS_PER_DAY THEN
          /\ smsLog' = appendSmsLog_(smsLog, Message(s), "ERROR", "DAY_CAP_REACHED")
          /\ sender' = [sender EXCEPT ![p] = NextMessage(s)]
        ELSE
          /\ sender' = [sender EXCEPT ![p].pos = "fetch", ![p].hourCur = counters.hour,
                                      ![p].dayCur = counters.day]
          /\ UNCHANGED smsLog
     /\ UNCHANGED <<counters, accepted, lockHolder>>
     /\ UNCHANGED capVars

\* smsDedupeHit_ puts the key after the miss; step 3 then reads the hour and
\* the day counter and refuses at the cap.
SendCaps(p) ==
  LET s == sender[p]
  IN /\ s.pos = "miss"
     /\ cache' = cache \cup {Message(s)}
     /\ IF counters.hour >= SMS_MAX_SENDS_PER_HOUR THEN
          /\ smsLog' = appendSmsLog_(smsLog, Message(s), "ERROR", "HOUR_CAP_REACHED")
          /\ sender' = [sender EXCEPT ![p] = NextMessage(s)]
        ELSE IF counters.day >= SMS_MAX_SENDS_PER_DAY THEN
          /\ smsLog' = appendSmsLog_(smsLog, Message(s), "ERROR", "DAY_CAP_REACHED")
          /\ sender' = [sender EXCEPT ![p] = NextMessage(s)]
        ELSE
          /\ sender' = [sender EXCEPT ![p].pos = "fetch", ![p].hourCur = counters.hour,
                                      ![p].dayCur = counters.day]
          /\ UNCHANGED smsLog
     /\ UNCHANGED <<counters, accepted, lockHolder>>
     /\ UNCHANGED capVars

\* Step 4: the provider accepts the message, which is logged as SENT, counted
\* in the budget and written to the two counters as the values read in step 3
\* plus one; or it refuses, which is logged as ERROR.
SendFetch(p) ==
  LET s == sender[p]
  IN /\ s.pos = "fetch"
     /\ \/ /\ accepted' = [hour |-> accepted.hour + 1, day |-> accepted.day + 1,
                           by |-> [accepted.by EXCEPT ![p] = @ + 1]]
           /\ smsLog' = appendSmsLog_(smsLog, Message(s), "SENT", "")
           /\ counters' = [hour |-> s.hourCur + 1, day |-> s.dayCur + 1]
           /\ sender' = [sender EXCEPT ![p] = NextMessage([s EXCEPT !.budget = @ + 1])]
        \/ /\ smsLog' = appendSmsLog_(smsLog, Message(s), "ERROR", "Twilio error")
           /\ sender' = [sender EXCEPT ![p] = NextMessage(s)]
           /\ UNCHANGED <<counters, accepted>>
     /\ UNCHANGED <<cache, lockHolder>>
     /\ UNCHANGED capVars

\* Every call has returned: the execution ends and, in doPost, the lock is
\* released.
SendEnd(p) ==
  /\ sender[p].pos = "loop" /\ sender[p].calls = <<>>
  /\ sender' = [sender EXCEPT ![p].pos = "done"]
  /\ lockHolder' = IF sender[p].locked THEN 0 ELSE lockHolder
  /\ UNCHANGED <<cache, counters, accepted, smsLog>>
  /\ UNCHANGED capVars

\* Executions that overlap.  A DROP commit alerts two teams (keys 1 and 2);
\* updateAllEvents finds one withdrawal in the MPO sheet and one in the FPO
\* sheet (keys 3 and 4), and a second run of it can find the same two.
CapWork ==
  { [doPost |-> TRUE, calls |-> << <<1, 2>> >>],
    [doPost |-> FALSE, calls |-> << <<3>>, <<4>> >>] }

NextCap ==
  \E p \in Fans :
    \/ SendStart(p, CapWork)
    \/ SendGate(p)
    \/ SendCaps(p)
    \/ SendFetch(p)
    \/ SendEnd(p)

\* The sheets as in InitSms; the counters agree with what was sent.
InitSend(c) ==
  /\ draftBoard = DraftFull
  /\ transactions = <<>>
  /\ rosters = rebuildRosters(draftBoard, <<>>)
  /\ standings = ScenarioStandings
  /\ requests = <<>>
  /\ awardsLog = <<>>
  /\ subs = SmsSubs
  /\ smsLog = <<>>
  /\ pc = "idle"
  /\ run = NoRun
  /\ lastReq = NoReq
  /\ resp = NoResp
  /\ ranCycles = {}
  /\ nreq = 0
  /\ lookupSheets = TRUE
  /\ lockHolder = 0
  /\ exec = [p \in Execs |-> "start"]
  /\ cache = {}
  /\ fan = [p \in Fans |-> NoFan]
  /\ twilio = {}
  /\ statsFact = <<>>
  /\ statsRes = NoStatsRes
  /\ bot = NoTrade
  /\ menu = "idle"
  /\ sender = [p \in Fans |-> NoSend]
  /\ optedOut = {}
  /\ lineups = <<>>
  /\ lineupHistory = <<>>
  /\ scriptProperties = {}
  /\ channel = <<>>
  /\ cron = NoCron
  /\ today = Event.startDate
  /\ counters = c
  /\ accepted = [NoneAccepted EXCEPT !.hour = c.hour, !.day = c.day]

\* Earlier executions have sent one message less than the hour allows, or,
\* in earlier hours, one less than the day allows.
InitCap ==
  \E c \in { [hour |-> SMS_MAX_SENDS_PER_HOUR - 1, day |-> SMS_MAX_SENDS_PER_HOUR - 1],
              [hour |-> 0, day |-> SMS_MAX_SENDS_PER_DAY - 1] } : InitSend(c)

SpecCap == InitCap /\ [][NextCap]_vars

\* One execution at the start of the hour.  An event is cancelled: sixteen
\* owned players of the MPO sheet and one of the FPO sheet are found withdrawn;
\* or a doPost request alerts ten teams.
Keys(from, n) == [i \in 1..n |-> from + i]

RunWork ==
  { [doPost |-> FALSE,
     calls |-> << Keys(0, SMS_MAX_SENDS_PER_INVOCATION + 1),
                  Keys(SMS_MAX_SENDS_PER_INVOCATION + 1, 1) >>],
    [doPost |-> TRUE, calls |-> << Keys(0, Len(CANON_TEAMS)) >>] }

NextRun ==
  \/ SendStart(1, RunWork)
  \/ SendGate(1)
  \/ SendCaps(1)
  \/ SendFetch(1)
  \/ SendEnd(1)

InitRun == InitSend(NoCount)

SpecRun == InitRun /\ [][NextRun]_vars

-----------------------------------------------------------------------------
(* 18) AlertSubscriptions: ALERTS_SET, the STOP and START keywords and the     *)
(* fan-outs that read the sheet                                               *)

PhoneA == "+15550000001"
PhoneB == "+15550000002"

\* upsertAlertSubscription_ on the phone it is given: digits alone get a "+".
NormalizePhone(phone) ==
  CASE phone = "15550000001" -> "+15550000001"
    [] phone = "555" -> "+555"
    [] OTHER -> phone

\* /^\+\d{10,15}$/ on the phones of the model.
IsE164(phone) == phone \in {PhoneA, PhoneB}

\* indexOf: the first row that satisfies Test, 0 when there is none.
FirstRow(rows, Test(_)) ==
  IF \E i \in 1..Len(rows) : Test(rows[i])
    THEN CHOOSE i \in 1..Len(rows) : Test(rows[i]) /\ \A j \in 1..(i - 1) : ~Test(rows[j])
    ELSE 0

\* The update of an existing row with Enabled as the request asks.
upsertAlertSubscription_enabledAsAsked(rows, data) ==
  LET t == normalizeTeam_(data.team)
      phone == NormalizePhone(data.phoneE164)
      TeamIs(r) == normalizeTeam_(r.team) = t
      rowIndex == FirstRow(rows, TeamIs)
  IN IF ~IsE164(phone) THEN [threw |-> TRUE, rows |-> rows]
     ELSE IF rowIndex = 0 THEN
       [threw |-> FALSE,
        rows |-> Append(rows, SubRow(t, phone, data.enabled, data.freeAgents,
                                     data.waiverAwards, FALSE))]
     ELSE
       [threw |-> FALSE,
        rows |-> [rows EXCEPT ![rowIndex] =
                    SubRow(t, phone, data.enabled, data.freeAgents,
                           data.waiverAwards, rows[rowIndex].optOut)]]

\* One row per team: a new team gets a row with OptOut FALSE, an existing row
\* is rewritten, keeps its OptOut and, when opted out, stays disabled.
upsertAlertSubscription_(rows, data) ==
  LET t == normalizeTeam_(data.team)
      phone == NormalizePhone(data.phoneE164)
      TeamIs(r) == normalizeTeam_(r.team) = t
      rowIndex == FirstRow(rows, TeamIs)
  IN IF ~IsE164(phone) THEN [threw |-> TRUE, rows |-> rows]
     ELSE IF rowIndex = 0 THEN
       [threw |-> FALSE,
        rows |-> Append(rows, SubRow(t, phone, data.enabled, data.freeAgents,
                                     data.waiverAwards, FALSE))]
     ELSE
       LET optOut == rows[rowIndex].optOut
           effectiveEnabled == IF optOut THEN FALSE ELSE data.enabled
       IN [threw |-> FALSE,
           rows |-> [rows EXCEPT ![rowIndex] =
                       SubRow(t, phone, effectiveEnabled, data.freeAgents,
                              data.waiverAwards, optOut)]]

\* The first row with the phone gets OptOut; an opt-out also clears Enabled.
setOptOutByPhone_(rows, phoneE164, optOutBool) ==
  LET PhoneIs(r) == r.phone = phoneE164
      i == FirstRow(rows, PhoneIs)
  IN IF i = 0 THEN rows
     ELSE [rows EXCEPT ![i].optOut = optOutBool,
                       ![i].enabled = IF optOutBool THEN FALSE ELSE @]

subsVars == <<today, lineups, lineupHistory, scriptProperties, channel, cron, sender, counters, accepted, bot, menu, statsFact, statsRes, cache, fan, twilio,
              lockHolder, exec, lookupSheets, draftBoard, transactions, rosters, standings,
              requests, awardsLog, pc, run, ranCycles>>

AlertsSetReq(team, phoneE164, enabled, freeAgents, waiverAwards) ==
  [action |-> "ALERTS_SET", team |-> team, phoneE164 |-> phoneE164, enabled |-> enabled,
   freeAgents |-> freeAgents, waiverAwards |-> waiverAwards]

\* What /alerts posts (enabled is always true), with a phone typed as digits
\* and one that is no E.164 number.
AlertsSetInputs ==
  { AlertsSetReq(t, ph, TRUE, TRUE, TRUE) : t \in {TeamA, "RYA"}, ph \in {PhoneA, PhoneB} }
    \cup { AlertsSetReq(TeamA, PhoneA, TRUE, TRUE, FALSE),
           AlertsSetReq(TeamB, "15550000001", TRUE, TRUE, TRUE),
           AlertsSetReq(TeamB, "555", TRUE, TRUE, TRUE) }

DoPostAlertsSet ==
  /\ pc = "idle"
  /\ nreq < MaxRequests
  /\ \E data \in AlertsSetInputs :
       LET res == upsertAlertSubscription_(subs, data)
       IN /\ lastReq' = data
          /\ nreq' = nreq + 1
          /\ subs' = res.rows
          /\ resp' = [action |-> "ALERTS_SET", ok |-> ~res.threw]
  /\ UNCHANGED <<smsLog, optedOut>>
  /\ UNCHANGED subsVars

StopWords == {"STOP", "UNSUBSCRIBE", "CANCEL", "END", "QUIT"}
StartWords == {"START", "YES"}

\* A keyword message that Twilio forwards: STOP and START answer with their
\* text whether or not a row was found.
DoPostTwilioInbound ==
  /\ pc = "idle"
  /\ nreq < MaxRequests
  /\ \E from \in {PhoneA, PhoneB}, body \in {"STOP", "QUIT", "START"} :
       /\ lastReq' = [action |-> "TWILIO_INBOUND", from |-> from, body |-> body]
       /\ nreq' = nreq + 1
       /\ subs' = IF body \in StopWords THEN setOptOutByPhone_(subs, from, TRUE)
                  ELSE setOptOutByPhone_(subs, from, FALSE)
       /\ optedOut' = IF body \in StopWords THEN optedOut \cup {from} ELSE optedOut \ {from}
       /\ resp' = [action |-> "TWILIO_INBOUND",
                   message |-> IF body \in StopWords THEN "unsubscribed" ELSE "re-subscribed"]
  /\ UNCHANGED smsLog
  /\ UNCHANGED subsVars

\* A request whose fan-out goes to every eligible row: a DROP commit
\* (FreeAgents) or a WAIVER_RUN in which every team has an award.
DoPostFanout ==
  /\ pc = "idle"
  /\ nreq < MaxRequests
  /\ \E kind \in DoPostAlerts :
       LET targets == AlertTargets(kind)
       IN /\ lastReq' = [action |-> "FANOUT", kind |-> kind]
          /\ smsLog' = smsLog \o [i \in 1..Len(targets) |->
                                    [team |-> targets[i].team, toPhone |-> targets[i].phone,
                                     alertType |-> kind, status |-> "SENT"]]
          /\ resp' = [action |-> "FANOUT", ok |-> TRUE]
  /\ nreq' = nreq + 1
  /\ UNCHANGED <<subs, optedOut>>
  /\ UNCHANGED subsVars

NextSubs == DoPostAlertsSet \/ DoPostTwilioInbound \/ DoPostFanout

\* The sheet is empty, or /alerts has saved PhoneA for one team or for two.
InitSubs ==
  /\ draftBoard = DraftFull
  /\ transactions = <<>>
  /\ rosters = rebuildRosters(draftBoard, <<>>)
  /\ standings = ScenarioStandings
  /\ requests = <<>>
  /\ awardsLog = <<>>
  /\ smsLog = <<>>
  /\ pc = "idle"
  /\ run = NoRun
  /\ lastReq = NoReq
  /\ resp = NoResp
  /\ ranCycles = {}
  /\ nreq = 0
  /\ lookupSheets = TRUE
  /\ lockHolder = 0
  /\ exec = [p \in Execs |-> "start"]
  /\ cache = {}
  /\ fan = [p \in Fans |-> NoFan]
  /\ twilio = {}
  /\ statsFact = <<>>
  /\ statsRes = NoStatsRes
  /\ bot = NoTrade
  /\ menu = "idle"
  /\ sender = [p \in Fans |-> NoSend]
  /\ optedOut = {}
  /\ lineups = <<>>
  /\ lineupHistory = <<>>
  /\ scriptProperties = {}
  /\ channel = <<>>
  /\ cron = NoCron
  /\ today = Event.startDate
  /\ counters = NoCount
  /\ accepted = NoneAccepted
  /\ subs \in { <<>>,
                << SubRow(TeamA, PhoneA, TRUE, TRUE, TRUE, FALSE) >>,
                << SubRow(TeamA, PhoneA, TRUE, TRUE, TRUE, FALSE),
                   SubRow(TeamB, PhoneA, TRUE, TRUE, TRUE, FALSE) >> }

SpecSubs == InitSubs /\ [][NextSubs]_vars

-----------------------------------------------------------------------------
(* 19) Lineups: the nightly scoring run and the Lock and Finalize menu items  *)

canonTeamsNoFA_ == SelectSeq(CANON_TEAMS, LAMBDA t : t # "" /\ t # FREE_AGENT)

LineupRow(code, team, status) == [EventCode |-> code, Team |-> team, Status |-> status]

\* The sheet row of (eventCode, teamName), 0 when there is none.
findLineupsRow_(rows, eventCode, teamName) ==
  LET hits == {i \in 1..Len(rows) : rows[i].EventCode = eventCode /\ rows[i].Team = teamName}
  IN IF hits = {} THEN 0 ELSE CHOOSE i \in hits : \A j \in hits : i <= j

\* The row of the key is overwritten whole, whatever its Status; else appended.
upsertLineupsRow_(rows, rowObj) ==
  LET existingRow == findLineupsRow_(rows, rowObj.EventCode, rowObj.Team)
  IN IF existingRow > 0 THEN [rows EXCEPT ![existingRow] = rowObj]
     ELSE Append(rows, rowObj)

\* The loop over the teams of lockLineupsForEventCode and of
\* autoLockLineupsForEventCodeSafe_: a team whose tab holds six picks from its
\* roster for this event code (ready) gets a LOCKED row, the others are skipped.
RECURSIVE LockTeams(_, _, _, _)
LockTeams(rows, code, ready, k) ==
  IF k > Len(canonTeamsNoFA_) THEN rows
  ELSE LET team == canonTeamsNoFA_[k]
       IN LockTeams(IF team \in ready
                      THEN upsertLineupsRow_(rows, LineupRow(code, team, "LOCKED"))
                      ELSE rows,
                    code, ready, k + 1)

autoLockLineupsForEventCodeSafe_(rows, eventCode, ready) == LockTeams(rows, eventCode, ready, 1)

\* Every LOCKED row of the event code gets a LineupHistory row and becomes
\* FINALIZED; with no LOCKED row the function throws.
RECURSIVE FinalizeRows(_, _, _, _)
FinalizeRows(rows, hist, code, i) ==
  IF i > Len(rows) THEN [lineups |-> rows, history |-> hist]
  ELSE IF rows[i].EventCode = code /\ rows[i].Status = "LOCKED"
    THEN FinalizeRows([rows EXCEPT ![i].Status = "FINALIZED"],
                      Append(hist, [EventCode |-> code, Team |-> rows[i].Team]), code, i + 1)
    ELSE FinalizeRows(rows, hist, code, i + 1)

finalizeLineupsForEventCode(rows, hist, eventCode) ==
  LET res == FinalizeRows(rows, hist, eventCode, 1)
  IN [threw |-> Len(res.history) = Len(hist), lineups |-> res.lineups, history |-> res.history]

finalizedGuardKey_(eventCode) == "EVENT_FINALIZED_" \o eventCode
wasEventFinalized_(eventCode) == finalizedGuardKey_(eventCode) \in scriptProperties

dateInRange_(d, start, end) == d >= start /\ d <= end

lineupVars == <<channel, cron, optedOut, sender, counters, accepted, bot, menu, statsFact,
                statsRes, cache, fan, twilio, lockHolder, exec, lookupSheets, draftBoard,
                transactions, rosters, standings, requests, awardsLog, subs, smsLog, pc, run,
                resp, ranCycles>>

ReadyTeams == SUBSET {canonTeamsNoFA_[k] : k \in 1..Len(canonTeamsNoFA_)}

\* Menu item "Lineups: Lock".
uiLockLineupsPrompt ==
  /\ nreq < MaxExecs
  /\ \E ready \in ReadyTeams :
       /\ lineups' = LockTeams(lineups, Event.eventCode, ready, 1)
       /\ lastReq' = [action |-> "uiLockLineupsPrompt", ready |-> ready]
  /\ nreq' = nreq + 1
  /\ UNCHANGED <<lineupHistory, scriptProperties, today>>
  /\ UNCHANGED lineupVars

\* Menu item "Lineups: Finalize".
uiFinalizeLineupsPrompt ==
  /\ nreq < MaxExecs
  /\ LET fin == finalizeLineupsForEventCode(lineups, lineupHistory, Event.eventCode)
     IN /\ lineups' = fin.lineups
        /\ lineupHistory' = fin.history
        /\ lastReq' = [action |-> "uiFinalizeLineupsPrompt", threw |-> fin.threw]
  /\ nreq' = nreq + 1
  /\ UNCHANGED <<scriptProperties, today>>
  /\ UNCHANGED lineupVars

\* The nightly trigger, or menu item "Run PDGA Scoring Now": on a day of the
\* event it locks, and on the end date it finalizes unless the guard is set.
scoreNightlyPdgaLive ==
  /\ nreq < MaxExecs
  /\ \E ready \in ReadyTeams :
       LET active == dateInRange_(today, Event.startDate, Event.endDate)
           locked == IF active
                       THEN autoLockLineupsForEventCodeSafe_(lineups, Event.eventCode, ready)
                       ELSE lineups
           tries == active /\ Event.endDate = today /\ ~wasEventFinalized_(Event.eventCode)
           fin == finalizeLineupsForEventCode(locked, lineupHistory, Event.eventCode)
       IN /\ lineups' = IF tries THEN fin.lineups ELSE locked
          /\ lineupHistory' = IF tries THEN fin.history ELSE lineupHistory
          /\ scriptProperties' = IF tries /\ ~fin.threw
                                   THEN scriptProperties \cup {finalizedGuardKey_(Event.eventCode)}
                                   ELSE scriptProperties
          /\ lastReq' = [action |-> "scoreNightlyPdgaLive", ready |-> ready]
  /\ nreq' = nreq + 1
  /\ UNCHANGED today
  /\ UNCHANGED lineupVars

\* Midnight passes.
NextDay ==
  /\ today <= Event.endDate
  /\ today' = today + 1
  /\ UNCHANGED <<lineups, lineupHistory, scriptProperties, lastReq, nreq>>
  /\ UNCHANGED lineupVars

NextLineups == uiLockLineupsPrompt \/ uiFinalizeLineupsPrompt \/ scoreNightlyPdgaLive \/ NextDay

SpecLineups == InitLock /\ [][NextLineups]_vars

-----------------------------------------------------------------------------
(* 20) The bot's waiver runner: the noon job and /waiver_run_now              *)

postVars == <<today, lineups, lineupHistory, scriptProperties, optedOut, sender, counters,
              accepted, bot, menu, statsFact, statsRes, cache, fan, twilio, lockHolder, exec,
              lookupSheets, draftBoard, transactions, rosters, standings, requests, awardsLog,
              subs, smsLog, pc, run, lastReq, resp, ranCycles, nreq>>

\* What postWaiverRun sends for the cycle of the schedule.
CronRunInputs == {[action |-> "WAIVER_RUN", cycleId |-> "c1", eventName |-> "ev"]}

\* Wishlists arrive while the runner is idle.
CronSubmit == cron.pos = "idle" /\ DoPostWaiverSubmit(SubmitInputs)

\* The noon job or /waiver_run_now calls runWaiverAwardsForEvent, which posts
\* WAIVER_RUN and awaits the reply.
CronTrigger ==
  /\ cron.pos = "idle"
  /\ pc = "idle"
  /\ nreq < MaxRequests
  /\ \E data \in CronRunInputs :
       cron' = [NoCron EXCEPT !.pos = "sent", !.seq = nreq, !.cycleId = data.cycleId]
  /\ UNCHANGED channel
  /\ UNCHANGED postVars

\* doPost receives the request of the runner.
CronRunBegin ==
  /\ cron.pos = "sent"
  /\ nreq = cron.seq
  /\ WaiverRunBegin({data \in CronRunInputs : data.cycleId = cron.cycleId})

\* The reply reaches the bot, or the fetch fails and postJson_ throws; a reply
\* with alreadyPosted ends the runner without a post.
CronReply ==
  /\ cron.pos = "sent"
  /\ nreq > cron.seq
  /\ pc = "idle"
  /\ \/ cron' = [cron EXCEPT !.pos = "idle", !.returned = "threw"]
     \/ /\ ~resp.ok
        /\ cron' = [cron EXCEPT !.pos = "idle", !.returned = "threw"]
     \/ /\ resp.ok
        /\ resp.alreadyPosted
        /\ cron' = [cron EXCEPT !.pos = "idle", !.returned = "alreadyPosted"]
     \/ /\ resp.ok
        /\ ~resp.alreadyPosted
        /\ cron' = [cron EXCEPT !.pos = "fetched", !.result = resp.lines]
  /\ UNCHANGED channel
  /\ UNCHANGED postVars

\* channels.fetch and channel.send: the message is posted, or one of them throws.
CronSend ==
  /\ cron.pos = "fetched"
  /\ \/ /\ channel' = Append(channel, [cycleId |-> cron.cycleId, lines |-> cron.result])
        /\ cron' = [cron EXCEPT !.pos = "idle", !.returned = "posted"]
     \/ /\ channel' = channel
        /\ cron' = [cron EXCEPT !.pos = "idle", !.returned = "threw"]
  /\ UNCHANGED postVars

NextPost ==
  \/ CronSubmit
  \/ CronTrigger
  \/ CronRunBegin
  \/ WaiverVisit
  \/ WaiverRoundEnd
  \/ WaiverFinish
  \/ CronReply
  \/ CronSend

InitPost == Init /\ draftBoard = DraftNone /\ standings = ScenarioStandings

SpecPost == InitPost /\ [][NextPost]_vars

-----------------------------------------------------------------------------
(* 21) Claiming an award: WAIVER_RUN followed by ADD requests                 *)

\* Both teams put p2 first; a wishlist may go on with p1.
ClaimSubmitInputs ==
  [action : {"WAIVER_SUBMIT"}, cycleId : {"c1"}, team : {"Exalted Evil", "RYA"},
   picks : {<< Pick(1, "p2", "n") >>, << Pick(1, "p2", "n"), Pick(2, "p1", "n") >>}]

ClaimRunInputs == {[action |-> "WAIVER_RUN", cycleId |-> "c1", eventName |-> "ev"]}

\* /transaction ADD from either team, once with toTeam.
ClaimAddInputs ==
  {AddReq(t, p, "n", "", "") : t \in {"Exalted Evil", "RYA"}, p \in {"p1", "p2"}}
    \cup {AddReq("RYA", "p2", "n", "Exalted Evil", "")}

NextClaim ==
  \/ DoPostWaiverSubmit(ClaimSubmitInputs)
  \/ WaiverRunBegin(ClaimRunInputs)
  \/ WaiverVisit
  \/ WaiverRoundEnd
  \/ WaiverFinish
  \/ DoPostTransaction(ClaimAddInputs)

SpecClaim == InitTx /\ [][NextClaim]_vars

-----------------------------------------------------------------------------
(* Properties of the waiver engine *)

AwardedRows(log, cycleId) ==
  SelectSeq(log, LAMBDA r : r.cycleId = cycleId /\ r.status = "AWARDED")

\* C1 (waiver exclusivity): within one cycleId no pdga stands in two AWARDED
\* rows of WaiverAwardsLog, nor in the rows a run in progress is about to
\* append, whatever submissions and runs came before.
C1_NoPlayerAwardedTwice ==
  LET all == awardsLog \o run.awardRowsToAppend
  IN \A i, j \in 1..Len(all) :
       (i # j /\ all[i].status = "AWARDED" /\ all[j].status = "AWARDED"
        /\ all[i].cycleId = all[j].cycleId) => all[i].pdga # all[j].pdga

\* Two teams asked for the same player in one cycle, the run is posted and
\* made two awards in that cycle.
C1_Witness ==
  \E c \in Cycles :
    /\ Len(AwardedRows(awardsLog, c)) >= 2
    /\ \E i, j \in 1..Len(requests) :
         /\ requests[i].cycleId = c /\ requests[j].cycleId = c
         /\ requests[i].status = "ROLLED" /\ requests[j].status = "ROLLED"
         /\ requests[i].team # requests[j].team
         /\ requests[i].pdga = requests[j].pdga

IsRerun ==
  /\ pc = "idle"
  /\ nreq' = nreq + 1
  /\ lastReq'.action = "WAIVER_RUN"
  /\ lastReq'.cycleId \in ranCycles

\* C2 (idempotency): once a run for cycle c has answered ok with
\* alreadyPosted = false, every later WAIVER_RUN for c leaves WaiverAwardsLog,
\* WaiverRequests and the SMS log as they are and starts no round loop, and
\* when it carries an eventName it answers ok with alreadyPosted = true.
C2_RerunIsNoOp ==
  [][IsRerun =>
       /\ awardsLog' = awardsLog
       /\ requests' = requests
       /\ smsLog' = smsLog
       /\ pc' = "idle"
       /\ lastReq'.eventName # "" =>
            resp' = [action |-> "WAIVER_RUN", ok |-> TRUE, alreadyPosted |-> TRUE]]_vars

\* A second run of a cycle whose first run made no award was answered
\* alreadyPosted.
C2_Witness ==
  /\ pc = "idle"
  /\ lastReq.action = "WAIVER_RUN"
  /\ lastReq.cycleId \in ranCycles
  /\ resp = [action |-> "WAIVER_RUN", ok |-> TRUE, alreadyPosted |-> TRUE]
  /\ AwardedRows(awardsLog, lastReq.cycleId) = <<>>

FreeAgentNow(pdga) == normalizeTeam_(ownerByPdgaOf(rosters)[pdga]) \in {"", FREE_AGENT}

\* The wishlist positions at or after the cursor that qualify for an award.
Qualifying(team) ==
  LET w == run.requestsByTeam[team]
  IN {k \in (run.cursorByTeam[team] + 1)..Len(w) :
        w[k].pdga \notin run.awardedThisRun /\ FreeAgentNow(w[k].pdga)}

Min(S) == CHOOSE x \in S : \A y \in S : x <= y

VisitAwardsFirstQualifying ==
  pc = "visit" =>
    LET team == run.ordered[run.i].team
        w == run.requestsByTeam[team]
        Q == Qualifying(team)
        new == SubSeq(run'.awardRowsToAppend, Len(run.awardRowsToAppend) + 1,
                      Len(run'.awardRowsToAppend))
    IN /\ \A t \in CanonSet \ {team} : run'.awardsByTeam[t] = run.awardsByTeam[t]
       /\ IF Q = {} THEN
            /\ run'.awardsByTeam = run.awardsByTeam
            /\ run'.awardedThisRun = run.awardedThisRun
            /\ \A k \in 1..Len(new) : new[k].status # "AWARDED"
          ELSE
            /\ run'.awardsByTeam[team] = Append(run.awardsByTeam[team], w[Min(Q)])
            /\ run'.awardedThisRun = run.awardedThisRun \cup {w[Min(Q)].pdga}
            /\ run'.cursorByTeam[team] = Min(Q)
            /\ Len(new) = 1
            /\ new[1].status = "AWARDED" /\ new[1].team = team
            /\ new[1].pdga = w[Min(Q)].pdga

\* The scenario of the specification: A has 10 points and wishes p1 then p2,
\* B has 5 points and wishes p1, both players are free agents.
Scenario ==
  /\ loadStandings_(standings) =
       << StRow(TeamA, 0, 10), StRow(TeamB, 0, 5) >>
  /\ run.requestsByTeam[TeamA] = << Pick(1, "p1", "n"), Pick(2, "p2", "n") >>
  /\ run.requestsByTeam[TeamB] = << Pick(1, "p1", "n") >>
  /\ FreeAgentNow("p1") /\ FreeAgentNow("p2")

ScenarioAwards ==
  [k \in 1..Len(AwardedRows(run.awardRowsToAppend, run.cycleId)) |->
     << AwardedRows(run.awardRowsToAppend, run.cycleId)[k].team,
        AwardedRows(run.awardRowsToAppend, run.cycleId)[k].pdga >>]

\* C3 (highest remaining pick): every visit of a team awards exactly the first
\* entry of its wishlist, at or after its cursor, that is not yet awarded in
\* the run and is a free agent now, and awards nothing when there is none; in
\* the scenario the run ends with exactly the awards B:p1 and A:p2.
C3_VisitAwardsHighestRemainingPick ==
  /\ [][VisitAwardsFirstQualifying]_vars
  /\ []((pc = "finish" /\ Scenario) =>
          ScenarioAwards = << <<TeamB, "p1">>, <<TeamA, "p2">> >>)

\* The scenario's run has reached its end with the two awards.
C3_Witness ==
  /\ pc = "finish"
  /\ Scenario
  /\ ScenarioAwards = << <<TeamB, "p1">>, <<TeamA, "p2">> >>

\* C5 as stated (roster cap in the run): when a run has made its awards, each
\* team's awards plus its roster count is at most MAX_ROSTER, so a team whose
\* roster is full has no award.
C5_AwardsFitRoster ==
  pc = "finish" =>
    \A t \in LeagueTeams :
      Len(run.awardsByTeam[t]) + countByTeamOf(rosters, t) <= MAX_ROSTER

OrderedTeams == {run.ordered[k].team : k \in 1..Len(run.ordered)}

\* C5 restated (the run does not look at roster size): a run changes neither
\* Rosters nor Transactions nor DraftBoard, every awarded player is still a
\* free agent when the run ends, and a team ends round 1 without an award only
\* when none of its picks is a free agent not yet awarded in the run.
C5_RunLeavesRostersAlone ==
  /\ [][pc # "idle" => UNCHANGED <<rosters, transactions, draftBoard>>]_vars
  /\ []((pc = "roundEnd" /\ run.round = 1) =>
          \A t \in OrderedTeams :
            run.awardsByTeam[t] = <<>> =>
              \A k \in 1..Len(run.requestsByTeam[t]) :
                \/ ~FreeAgentNow(run.requestsByTeam[t][k].pdga)
                \/ run.requestsByTeam[t][k].pdga \in run.awardedThisRun)
  /\ [](pc = "finish" => \A p \in run.awardedThisRun : FreeAgentNow(p))

\* A team whose roster is at MAX_ROSTER ends the run with an award.
C5_Witness ==
  /\ pc = "finish"
  /\ \E t \in LeagueTeams :
       countByTeamOf(rosters, t) = MAX_ROSTER /\ run.awardsByTeam[t] # <<>>

StandingsTeams == {loadStandings_(standings)[k].team : k \in 1..Len(loadStandings_(standings))}

\* C8 (roll): the completion of a run for cycle c turns every ACTIVE row of c
\* into ROLLED, awarded or not and whether or not its team is in the
\* standings; a row that is VOID or ROLLED is never changed again.
C8_RollAndTerminalStatuses ==
  [][/\ pc = "finish" =>
          /\ Len(requests') = Len(requests)
          /\ \A i \in 1..Len(requests) :
               (requests[i].cycleId = run.cycleId /\ requests[i].status = "ACTIVE")
                 => requests'[i].status = "ROLLED"
     /\ \A i \in 1..Len(requests) :
          requests[i].status \in {"VOID", "ROLLED"} =>
            (i <= Len(requests') /\ requests'[i] = requests[i])]_vars

\* A run has just been posted; it rolled a row of a team that is not in the
\* standings, and a row voided before the run is still VOID.
C8_Witness ==
  /\ pc = "idle"
  /\ lastReq.action = "WAIVER_RUN"
  /\ lastReq.cycleId \in ranCycles
  /\ \E i, j \in 1..Len(requests) :
       /\ requests[i].status = "ROLLED"
       /\ requests[i].cycleId = lastReq.cycleId
       /\ requests[i].team \notin StandingsTeams
       /\ requests[j].status = "VOID"

AlphaOrder == << "Exalted Evil", "Free Agent", "Ryan Morgan", "Sir Krontzalot" >>

NameIndex(t) == CHOOSE k \in 1..Len(AlphaOrder) : AlphaOrder[k] = t

\* The declared priority order of two standings entries.
Precedes(a, b, hasRank) ==
  IF hasRank
    THEN a.rank > b.rank \/ (a.rank = b.rank /\ NameIndex(a.team) <= NameIndex(b.team))
    ELSE a.points < b.points
           \/ (a.points = b.points /\ NameIndex(a.team) <= NameIndex(b.team))

OrderIsDeclared ==
  pc # "idle" =>
    LET st == loadStandings_(standings)
        hasRank == \E k \in 1..Len(st) : st[k].rank # 0
    IN /\ Len(run.ordered) = Len(st)
       /\ SeqToSet(run.ordered) = SeqToSet(st)
       /\ \A i, j \in 1..Len(run.ordered) :
            i < j => Precedes(run.ordered[i], run.ordered[j], hasRank)

VisitFollowsOrder ==
  /\ (pc # "idle" /\ pc' # "idle") => run'.ordered = run.ordered
  /\ pc = "visit" =>
       /\ run.i \in 1..Len(run.ordered)
       /\ run'.i = run.i + 1
       /\ \A k \in (Len(run.awardRowsToAppend) + 1)..Len(run'.awardRowsToAppend) :
            /\ run'.awardRowsToAppend[k].team = run.ordered[run.i].team
            /\ run'.awardRowsToAppend[k].priority = Len(run.ordered) - (run.i - 1)
  /\ (pc = "roundEnd" /\ pc' = "visit") => run'.i = 1
  /\ (pc = "idle" /\ pc' = "visit") => run'.i = 1

\* C9 (pick order): with an explicit rank on any standings entry the teams are
\* visited by rank descending (a missing rank counts as 0), otherwise by points
\* ascending, ties by team name ascending; every round visits the teams in
\* that one order, and the team at 0-based position i is labelled teamCount - i.
C9_PickOrder ==
  /\ []OrderIsDeclared
  /\ [][VisitFollowsOrder]_vars

\* A run over standings that mix ranked teams, a rank tie and an unranked team
\* has visited all of them.
C9_Witness ==
  /\ pc = "finish"
  /\ Len(run.ordered) = 3
  /\ \E i, j, k \in 1..Len(run.ordered) :
       /\ i < j
       /\ run.ordered[i].rank = run.ordered[j].rank /\ run.ordered[i].rank # 0
       /\ run.ordered[k].rank = 0
  /\ Len(run.awardRowsToAppend) >= 3

LongestWishlist ==
  LET lens == {Len(run.requestsByTeam[t]) : t \in CanonSet}
  IN CHOOSE n \in lens : \A m \in lens : m <= n

\* The rounds of the run so far in which some team received an award.
AwardRounds ==
  IF pc = "finish" THEN run.round - 1
  ELSE (run.round - 1) + (IF run.awardsThisRound > 0 THEN 1 ELSE 0)

\* C10 (termination): the round loop ends at the first round without an award
\* and goes on after a round with one while round < MAX_ROUNDS; the round
\* number stays within 1..MAX_ROUNDS; the rounds with an award number at most
\* the length of the longest wishlist; and every run that starts comes to
\* its end.
C10_RunTerminates ==
  /\ [][pc = "roundEnd" =>
          IF run.awardsThisRound = 0 \/ run.round >= MAX_ROUNDS
            THEN pc' = "finish"
            ELSE pc' = "visit" /\ run'.round = run.round + 1]_vars
  /\ [](pc \in {"visit", "roundEnd"} => run.round \in 1..MAX_ROUNDS)
  /\ [](pc # "idle" => AwardRounds <= LongestWishlist)
  /\ (pc # "idle") ~> (pc = "idle")

\* A run over a wishlist of two picks made an award in rounds 1 and 2 and
\* stopped at round 3, which made none.
C10_Witness ==
  /\ pc = "finish"
  /\ run.round = 3
  /\ run.awardsThisRound = 0
  /\ LongestWishlist = 2

\* C4 (roster cap): no league team has more than MAX_ROSTER players on
\* Rosters, in the initial state and after any committed ADD, DROP, TRADE or
\* SWAP.
C4_RosterCapKept ==
  \A t \in LeagueTeams : countByTeamOf(rosters, t) <= MAX_ROSTER

ActiveRowsOf(reqs, cycleId, team) ==
  SelectSeq(reqs, LAMBDA r :
    r.cycleId = cycleId /\ normalizeTeam_(r.team) = team /\ r.status = "ACTIVE")

IsSubmitStep == nreq' = nreq + 1 /\ lastReq'.action = "WAIVER_SUBMIT"

UniqueActive ==
  \A i, j \in 1..Len(requests) :
    (/\ i # j
     /\ requests[i].status = "ACTIVE" /\ requests[j].status = "ACTIVE"
     /\ requests[i].cycleId = requests[j].cycleId
     /\ normalizeTeam_(requests[i].team) = normalizeTeam_(requests[j].team))
      => (requests[i].rank # requests[j].rank /\ requests[i].pdga # requests[j].pdga)

SubmitReplacesActive ==
  (IsSubmitStep /\ resp'.ok) =>
    LET c == lastReq'.cycleId
        t == normalizeTeam_(lastReq'.team)
        now == ActiveRowsOf(requests', c, t)
    IN /\ {Pick(now[k].rank, now[k].pdga, now[k].name) : k \in 1..Len(now)}
            = SeqToSet(lastReq'.picks)
       /\ Len(now) = Len(lastReq'.picks)
       /\ \A i \in 1..Len(requests) :
            (requests[i].cycleId = c /\ normalizeTeam_(requests[i].team) = t
             /\ requests[i].status = "ACTIVE") => requests'[i].status = "VOID"

\* C6 (one ACTIVE wishlist per team and cycle): in every state the ACTIVE rows
\* of one (cycleId, team) differ pairwise in rank and in player; after a
\* successful WAIVER_SUBMIT for (c, t) the ACTIVE rows of (c, t) are exactly
\* the picks of that submission and every row of (c, t) that was ACTIVE before
\* is VOID.
C6_OneActiveWishlist ==
  /\ []UniqueActive
  /\ [][SubmitReplacesActive]_vars

\* Pick k of the submission breaks a rule of the wishlist.
ViolatesRule(picks, k, team) ==
  \/ picks[k].rank \notin RANK_MIN..RANK_MAX
  \/ \E j \in 1..Len(picks) : j # k /\ picks[j].rank = picks[k].rank
  \/ \E j \in 1..Len(picks) : j # k /\ picks[j].pdga = picks[k].pdga /\ picks[k].pdga # ""
  \/ picks[k].pdga # "" /\ picks[k].pdga \notin PlayerPool
  \/ picks[k].pdga \in PlayerPool /\ ~FreeAgentNow(picks[k].pdga)
       /\ normalizeTeam_(ownerByPdgaOf(rosters)[picks[k].pdga]) # team

\* C7 (atomic rejection): a WAIVER_SUBMIT one of whose picks has a rank outside
\* the integers 1..10, repeats a rank or a player of the submission, names a
\* player not in PlayerPool or a player owned by another team, is answered
\* with an error and leaves WaiverRequests as it was.
C7_BadPickRejectsAll ==
  [][(IsSubmitStep
      /\ \E k \in 1..Len(lastReq'.picks) :
           ViolatesRule(lastReq'.picks, k, normalizeTeam_(lastReq'.team)))
       => (~resp'.ok /\ requests' = requests)]_vars

-----------------------------------------------------------------------------
(* Properties of the ledger *)

IssuedTx(type) == nreq' = nreq + 1 /\ ToUpperCase(lastReq'.type) = type

HasError(errors, code, arg) == \E i \in 1..Len(errors) : errors[i] = <<code, arg>>

\* ADD bodies with pdga and name present, from any team, with and without toTeam.
AddProposals ==
  {AddReq(t, p, "n", to, "") :
     t \in {"Exalted Evil", "RYA", "SIR"}, p \in ActivePdgas,
     to \in {"", "Exalted Evil", "Ryan Morgan"}}

AddTarget(data) == IF data.toTeam # "" THEN normalizeTeam_(data.toTeam) ELSE normalizeTeam_(data.team)

AddAllowed(ros, data) ==
  /\ ros[data.pdga] \in {"", FREE_AGENT}
  /\ Cardinality({p \in PDGAS : ros[p] = AddTarget(data)}) < MAX_ROSTER

AddVerdictIsDeclared ==
  \A data \in AddProposals :
    LET v == validateTransaction_(rosters, data)
    IN /\ v.ok <=> AddAllowed(rosters, data)
       /\ rosters[data.pdga] \in LeagueTeams =>
            ~v.ok /\ HasError(v.errors, "ADD_NOT_FREE_AGENT", rosters[data.pdga])

AddStepIsDeclared ==
  (IssuedTx("ADD") /\ lastReq'.pdga # "" /\ lastReq'.name # "") =>
     /\ resp'.ok <=> AddAllowed(rosters, lastReq')
     /\ ~resp'.ok => transactions' = transactions
     /\ rosters[lastReq'.pdga] \in LeagueTeams =>
          /\ ~resp'.ok
          /\ HasError(resp'.errors, "ADD_NOT_FREE_AGENT", rosters[lastReq'.pdga])
          /\ transactions' = transactions

\* C11: an ADD with pdga and name present is accepted exactly when the player
\* is a free agent (or has no owner) and the target team (toTeam, else team)
\* holds fewer than MAX_ROSTER players; an ADD of a player owned by league team
\* X is rejected whichever team sends it, with an error naming X, and appends
\* no Transactions row.
C11_AddAcceptedIffFreeAndRoom == []AddVerdictIsDeclared /\ [][AddStepIsDeclared]_vars

\* Ryan Morgan asked for p1, which Exalted Evil owns: rejected, nothing appended.
C11_Witness ==
  /\ lastReq = AddReq("RYA", "p1", "n", "", "")
  /\ resp.action = "TX" /\ ~resp.ok
  /\ HasError(resp.errors, "ADD_NOT_FREE_AGENT", "Exalted Evil")
  /\ rosters["p1"] = "Exalted Evil"
  /\ transactions = <<>>

SwapBody(team, dropPdga, dropName, addPdga, addName) ==
  TxData("SWAP", team, "", "", "", "", dropPdga, dropName, addPdga, addName, "")

\* SWAP bodies: every pair of players, either one absent, a name absent.
SwapProposals ==
       {SwapBody(t, d, "n", a, "n") :
          t \in {"Exalted Evil", "RYA"}, d \in ActivePdgas \cup {""}, a \in ActivePdgas \cup {""}}
  \cup {SwapBody(t, "p1", dn, "p2", an) :
          t \in {"Exalted Evil", "RYA"}, dn \in {"", "n"}, an \in {"", "n"}}

RosterSize(ros, team) == Cardinality({p \in PDGAS : ros[p] = team})

SwapAllowed(ros, data) ==
  LET team == normalizeTeam_(data.team)
  IN /\ data.dropPdga # "" /\ data.dropName # "" /\ data.addPdga # "" /\ data.addName # ""
     /\ data.dropPdga # data.addPdga
     /\ RosterSize(ros, team) <= MAX_ROSTER
     /\ ros[data.dropPdga] = team
     /\ ros[data.addPdga] \in {"", FREE_AGENT}

SwapVerdictIsDeclared ==
  \A data \in SwapProposals :
    LET v == validateTransaction_(rosters, data)
    IN /\ v.ok <=> SwapAllowed(rosters, data)
       /\ (data.dropPdga # "" /\ data.dropPdga = data.addPdga) =>
            ~v.ok /\ HasError(v.errors, "SWAP_SAME_PDGA", "")
       /\ RosterSize(rosters, normalizeTeam_(data.team)) = MAX_ROSTER =>
            ~HasError(v.errors, "SWAP_OVER_CAP", normalizeTeam_(data.team))

SwapStepIsDeclared ==
  IssuedTx("SWAP") => (resp'.ok <=> SwapAllowed(rosters, lastReq'))

\* C12: a SWAP is accepted exactly when dropPdga, dropName, addPdga and addName
\* are present, dropPdga differs from addPdga, the team holds no more than
\* MAX_ROSTER players, the dropped player is owned by the acting team and the
\* added player is a free agent; a SWAP of a player for itself is rejected in
\* every ownership state, and a team exactly at the cap is not refused for size.
C12_SwapAcceptedIffRules == []SwapVerdictIsDeclared /\ [][SwapStepIsDeclared]_vars

\* Exalted Evil, at the cap, swapped p1 for the free agent p2.
C12_Witness ==
  /\ lastReq = SwapReq("Exalted Evil", "p1", "p2", "")
  /\ resp.action = "TX" /\ resp.ok
  /\ Len(transactions) = 2
  /\ draftBoard = DraftFull
  /\ RosterSize(rosters, "Exalted Evil") = MAX_ROSTER
  /\ rosters["p2"] = "Exalted Evil"

\* A team over the cap (after a TRADE) was refused a SWAP for its size.
C12_OverCapRefused ==
  /\ lastReq = SwapReq("Exalted Evil", "p1", "p2", "")
  /\ resp.action = "TX" /\ ~resp.ok
  /\ HasError(resp.errors, "SWAP_OVER_CAP", "Exalted Evil")

CommittedTx(type) == IssuedTx(type) /\ resp'.ok /\ ToLowerCase(lastReq'.mode) # "validate"

SwapCommitIsAtomic ==
  CommittedTx("SWAP") =>
    LET team == normalizeTeam_(lastReq'.team)
        n == Len(transactions)
        new == SubSeq(transactions', n + 1, Len(transactions'))
    IN /\ Len(transactions') = n + 2
       /\ SubSeq(transactions', 1, n) = transactions
       /\ {new[1].type, new[2].type} = {"DROP", "ADD"}
       /\ \A k \in 1..2 :
            /\ new[k].team = team
            /\ new[k].pdga = (IF new[k].type = "DROP" THEN lastReq'.dropPdga
                               ELSE lastReq'.addPdga)
       /\ rosters'[lastReq'.dropPdga] = FREE_AGENT
       /\ rosters'[lastReq'.addPdga] = team
       /\ RosterSize(rosters', team) = RosterSize(rosters, team)

\* C13: a committed SWAP appends exactly one DROP row and one ADD row of the
\* same team, next to each other with no row of another request between them;
\* after the rebuild the dropped player is a free agent, the added player is
\* owned by the team and the team's roster count is what it was before.
C13_SwapIsAtomic == [][SwapCommitIsAtomic]_vars

\* Ryan Morgan swapped p3 for p2: the sheet ends with its DROP and ADD rows.
C13_Witness ==
  /\ lastReq = SwapReq("RYA", "p3", "p2", "")
  /\ resp.action = "TX" /\ resp.ok
  /\ Len(transactions) >= 2
  /\ transactions[Len(transactions) - 1] = TxRow("DROP", "Ryan Morgan", "p3", "Ryan Morgan", FREE_AGENT)
  /\ transactions[Len(transactions)] = TxRow("ADD", "Ryan Morgan", "p2", FREE_AGENT, "Ryan Morgan")
  /\ rosters["p3"] = FREE_AGENT
  /\ rosters["p2"] = "Ryan Morgan"

\* TRADE bodies: with and without fromTeam, toTeam absent, equal to the team,
\* equal to fromTeam.
TradeProposals ==
  {TradeReq(t, p, from, to) :
     t \in {"Exalted Evil", "RYA"}, p \in {"p1", "p2", "p3"},
     from \in {"", "Exalted Evil", "Ryan Morgan"}, to \in {"", "EXA", "Ryan Morgan"}}

TradeSource(data) ==
  IF normalizeTeam_(data.fromTeam) # "" THEN normalizeTeam_(data.fromTeam)
  ELSE normalizeTeam_(data.team)

TradeAllowed(ros, data) ==
  /\ normalizeTeam_(data.toTeam) # ""
  /\ normalizeTeam_(data.toTeam) # TradeSource(data)
  /\ ros[data.pdga] = TradeSource(data)

TradeVerdictIsDeclared ==
  \A data \in TradeProposals :
    validateTransaction_(rosters, data).ok => TradeAllowed(rosters, data)

TradeStepIsDeclared == (IssuedTx("TRADE") /\ resp'.ok) => TradeAllowed(rosters, lastReq')

\* C14: a TRADE is accepted only if toTeam is present, differs from the source
\* team (the explicit fromTeam, else team) and the current owner is that source
\* team; a TRADE whose toTeam equals its fromTeam is always rejected.
C14_TradeNeedsDistinctTeams == []TradeVerdictIsDeclared /\ [][TradeStepIsDeclared]_vars

\* The same rule for the bodies of the /trade command, whose fromTeam is the team.
TradeVerdictOfBotBodies ==
  \A data \in TradeProposals :
    (data.fromTeam = "" \/ normalizeTeam_(data.fromTeam) = normalizeTeam_(data.team)) =>
       (validateTransaction_(rosters, data).ok => TradeAllowed(rosters, data))

\* A trade from Exalted Evil to Exalted Evil, sent by Ryan Morgan, was committed.
TradeToSelfCommitted ==
  /\ lastReq = TradeReq("RYA", "p1", "Exalted Evil", "Exalted Evil")
  /\ resp.action = "TX" /\ resp.ok
  /\ Len(transactions) > 0
  /\ transactions[Len(transactions)] = TxRow("TRADE", "Ryan Morgan", "p1", "Exalted Evil", "Exalted Evil")

\* The ownership map before row i of the history is folded.
FoldBefore(i) == FoldTx(DraftCurrent(draftBoard), SubSeq(transactions, 1, i - 1), 1)

DropExpected(row) ==
  IF normalizeTeam_(row.from) # "" THEN normalizeTeam_(row.from) ELSE normalizeTeam_(row.team)

\* Row i is a DROP whose expected source team is not the player's owner.
IsUnmatchedDrop(i) ==
  /\ ToUpperCase(transactions[i].type) = "DROP"
  /\ DropExpected(transactions[i]) # ""
  /\ FoldBefore(i)[transactions[i].pdga] # DropExpected(transactions[i])

RostersAreTheFold == rosters = rebuildRosters(draftBoard, transactions)

\* C16: whenever a webhook request starts (the script lock is free), the
\* Rosters sheet equals the fold of DraftBoard with all rows of Transactions,
\* after any sequence of earlier requests, failed ones included.
C16_RostersFollowLedger == pc = "idle" => RostersAreTheFold

\* A request appended its row, the rebuild then failed on the missing sheet:
\* the caller got an error, Transactions kept the row and Rosters is empty.
RebuildFailedAfterAppend ==
  /\ resp.action = "TX" /\ ~resp.ok
  /\ lastReq = AddReq("RYA", "p2", "n", "", "")
  /\ transactions = << TxRow("ADD", "Ryan Morgan", "p2", "", "") >>
  /\ rosters = RostersCleared
  /\ draftBoard = DraftFull

\* The keys of rebuildRosters' Map, in a fixed order of insertion.
PdgaOrder ==
  << "f1", "f2", "f3", "f4", "f5", "f6", "f7", "f8", "f9", "p1", "p2", "p3", "p9" >>

byTeam(a, b) == localeCompare(a.team, b.team)

\* rebuildRosters with the rows spelled out per event: a row for every draft
\* entry and one more for every Transactions row.
RosterRows_perEvent(draft, tx) ==
  LET base == DraftCurrent(draft)
      current == FoldTx(base, tx, 1)
      keys == SelectSeq(PdgaOrder, LAMBDA p : base[p] # "")
  IN    [k \in 1..Len(keys) |-> [team |-> normalizeTeam_(current[keys[k]]), pdga |-> keys[k]]]
     \o [k \in 1..Len(tx) |-> [team |-> normalizeTeam_(current[tx[k].pdga]), pdga |-> tx[k].pdga]]

\* The rows rebuildRosters writes under the header: one per key of the Map,
\* sorted by team.
RosterRows(draft, tx) ==
  LET current == FoldTx(DraftCurrent(draft), tx, 1)
      keys == SelectSeq(PdgaOrder, LAMBDA p : current[p] # "")
      out == [k \in 1..Len(keys) |-> [team |-> normalizeTeam_(current[keys[k]]), pdga |-> keys[k]]]
  IN stableSort(out, byTeam)

\* getOwnershipStateFromRosters_ over those rows: the last row of a pdga gives
\* its owner, every row with team and pdga adds one to its team's count.
getOwnershipStateFromRosters_(rows) ==
  LET kept == SelectSeq(rows, LAMBDA r : normalizeTeam_(r.team) # "" /\ r.pdga # "")
      rowsOf(p) == {i \in 1..Len(kept) : kept[i].pdga = p}
  IN [ownerByPdga |->
        [p \in PDGAS |->
           IF rowsOf(p) = {} THEN ""
           ELSE normalizeTeam_(kept[CHOOSE i \in rowsOf(p) : \A j \in rowsOf(p) : j <= i].team)],
      countByTeam |->
        [t \in CanonSet |->
           Cardinality({i \in 1..Len(kept) : normalizeTeam_(kept[i].team) = t})]]

\* C17: after a rebuild every PDGA number stands in exactly one Rosters row,
\* so it has exactly one owner, and countByTeam[team] is the number of players
\* whose owner is that team.
C17_OneOwnerAndCounts ==
  RostersAreTheFold =>
    LET rows == RosterRows(draftBoard, transactions)
        state == getOwnershipStateFromRosters_(rows)
    IN /\ \A i, j \in 1..Len(rows) : rows[i].pdga = rows[j].pdga => i = j
       /\ \A p \in PDGAS :
            rosters[p] # "" => \E i \in 1..Len(rows) : rows[i].pdga = p /\ rows[i].team = rosters[p]
       /\ state.ownerByPdga = ownerByPdgaOf(rosters)
       /\ \A t \in CanonSet :
            /\ state.countByTeam[t] = Cardinality({p \in PDGAS : state.ownerByPdga[p] = t})
            /\ state.countByTeam[t] = countByTeamOf(rosters, t)

\* p1 was dropped by Exalted Evil and then added by Ryan Morgan: three events
\* of one player, one Rosters row.
C17_Witness ==
  /\ draftBoard = DraftFull
  /\ lastReq = AddReq("RYA", "p1", "n", "", "")
  /\ resp.action = "TX" /\ resp.ok
  /\ rosters["p1"] = "Ryan Morgan"
  /\ countByTeamOf(rosters, "Exalted Evil") = MAX_ROSTER - 1
  /\ countByTeamOf(rosters, "Ryan Morgan") = 2

\* A step of the menu rebuild: Rosters is rewritten from the two sheets, which
\* the step leaves as they are.
RebuildStep ==
  /\ rosters' = rebuildRosters(draftBoard, transactions)
  /\ ownerByPdgaOf(rosters') =
       getOwnershipStateFromRosters_(RosterRows(draftBoard, transactions)).ownerByPdga
  /\ RostersAreTheFold => rosters' = rosters

Refused(r) ==
  /\ ~r.ok
  /\ \/ "errors" \in DOMAIN r
     \/ ("error" \in DOMAIN r /\ r.error = "MISSING_REQUIRED_FIELDS")

NothingWritten ==
  (nreq' = nreq + 1 /\ (ToLowerCase(lastReq'.mode) = "validate" \/ Refused(resp'))) =>
     /\ transactions' = transactions
     /\ rosters' = rosters
     /\ smsLog' = smsLog

\* C19: a transaction request with mode "validate", and any request that fails
\* validation, appends no row to Transactions, leaves Rosters unchanged and
\* sends no SMS.
C19_ValidateWritesNothing == [][NothingWritten]_vars

\* Exalted Evil asked to validate the DROP of its player p1: accepted, and the
\* ledger, the rosters and the SMS log are as before.
C19_Witness ==
  /\ lastReq = TxData("DROP", "Exalted Evil", "p1", "n", "", "", "", "", "", "", "validate")
  /\ resp.action = "TX" /\ resp.ok /\ resp.validated
  /\ transactions = <<>>
  /\ smsLog = <<>>
  /\ rosters["p1"] = "Exalted Evil"
  /\ nreq = 1

\* Proposals of the four known types with fields missing and rules broken.
ErrProposals ==
       {TxData("ADD", t, p, n, "", to, "", "", "", "", "") :
          t \in {"Exalted Evil", "RYA"}, p \in {"p1", "p2", ""}, n \in {"n", ""},
          to \in {"", "Exalted Evil"}}
  \cup {TxData("DROP", t, p, n, "", "", "", "", "", "", "") :
          t \in {"Exalted Evil", "RYA"}, p \in {"p1", "p2", ""}, n \in {"n", ""}}
  \cup {TxData("TRADE", t, p, n, "", to, "", "", "", "", "") :
          t \in {"Exalted Evil", "RYA"}, p \in {"p1", ""}, n \in {"n", ""},
          to \in {"", "Exalted Evil", "Ryan Morgan"}}
  \cup SwapProposals

Rule(cond, code) == IF cond THEN {code} ELSE {}

\* The rules of section 8 a proposal breaks, each named by the code of its error.
ViolatedRules(ros, data) ==
  LET type == ToUpperCase(data.type)
      team == normalizeTeam_(data.team)
      toTeam == normalizeTeam_(data.toTeam)
      owner == IF data.pdga \in PDGAS THEN ros[data.pdga] ELSE ""
      dropOwner == IF data.dropPdga \in PDGAS THEN ros[data.dropPdga] ELSE ""
      addOwner == IF data.addPdga \in PDGAS THEN ros[data.addPdga] ELSE ""
  IN IF type = "SWAP" THEN
            Rule(data.dropPdga = "", "SWAP_REQUIRES_DROP_PDGA")
       \cup Rule(data.dropName = "", "SWAP_REQUIRES_DROP_NAME")
       \cup Rule(data.addPdga = "", "SWAP_REQUIRES_ADD_PDGA")
       \cup Rule(data.addName = "", "SWAP_REQUIRES_ADD_NAME")
       \cup Rule(data.dropPdga # "" /\ data.dropPdga = data.addPdga, "SWAP_SAME_PDGA")
       \cup Rule(RosterSize(ros, team) > MAX_ROSTER, "SWAP_OVER_CAP")
       \cup Rule(dropOwner = "", "SWAP_DROP_NOT_OWNED")
       \cup Rule(dropOwner # "" /\ dropOwner # team, "SWAP_DROP_WRONG_OWNER")
       \cup Rule(addOwner \in LeagueTeams, "SWAP_ADD_NOT_FREE_AGENT")
     ELSE
            Rule(data.pdga = "", "MISSING_PDGA")
       \cup Rule(data.name = "", "MISSING_NAME")
       \cup Rule(type = "ADD" /\ owner \in LeagueTeams, "ADD_NOT_FREE_AGENT")
       \cup Rule(type = "ADD" /\ RosterSize(ros, IF toTeam # "" THEN toTeam ELSE team) >= MAX_ROSTER,
                 "ADD_ROSTER_FULL")
       \cup Rule(type = "DROP" /\ data.pdga # "" /\ owner = "", "DROP_NOT_OWNED")
       \cup Rule(type = "DROP" /\ owner # "" /\ owner # team, "DROP_WRONG_OWNER")
       \cup Rule(type = "TRADE" /\ toTeam = "", "TRADE_REQUIRES_TO_TEAM")
       \cup Rule(type = "TRADE" /\ toTeam # "" /\ toTeam = team, "TRADE_SAME_TEAM")
       \cup Rule(type = "TRADE" /\ toTeam # "" /\ data.pdga # "" /\ owner = "", "TRADE_NOT_OWNED")
       \cup Rule(type = "TRADE" /\ toTeam # "" /\ owner # "" /\ owner # team, "TRADE_WRONG_OWNER")

Reported(errors) == {errors[i][1] : i \in 1..Len(errors)}

\* C20: for every proposal of a known type the error list holds an entry for
\* every rule the proposal breaks, no check being skipped because an earlier
\* one failed: an ADD without a name that targets a team at the cap reports both.
C20_EveryViolationReported ==
  \A data \in ErrProposals :
    ViolatedRules(rosters, data) \subseteq Reported(validateTransaction_(rosters, data).errors)

\* The same for the proposals that carry their required fields (pdga and name;
\* a SWAP in any case).
EveryViolationReportedOnceComplete ==
  \A data \in ErrProposals :
    (ToUpperCase(data.type) = "SWAP" \/ (data.pdga # "" /\ data.name # "")) =>
      ViolatedRules(rosters, data) \subseteq Reported(validateTransaction_(rosters, data).errors)

\* An ADD without a name for Exalted Evil, whose roster is full, is answered
\* with the missing name alone.
AddAtCapWithoutNameReportsOne ==
  /\ RosterSize(rosters, "Exalted Evil") >= MAX_ROSTER
  /\ validateTransaction_(rosters, AddReq("Exalted Evil", "p2", "", "", "")).errors
       = << <<"MISSING_NAME", "">> >>

-----------------------------------------------------------------------------
(* Properties of the script lock and of concurrent executions *)

InDoPost == {"open", "try", "catch", "finallyOk", "finallyError", "finallyThrow"}

\* doPost has been left: by a return, or by an exception leaving the function.
LeftDoPost == {"returnedOk", "returnedError", "failed", "thrown", "lockTimeout", "ended"}

OneBodyAtATime == Cardinality({p \in Execs : exec[p] \in InDoPost}) <= 1

LockReleasedOnExit == \A p \in Execs : exec[p] \in LeftDoPost => lockHolder # p

\* C21: at most one doPost body executes at a time, and the script lock doPost
\* acquired is released on every exit path after the acquisition, also when
\* opening the spreadsheet or the log sheet throws and when a handler throws.
C21_LockScopedToDoPost == OneBodyAtATime /\ LockReleasedOnExit

\* The same for the exits through the try statement.
LockReleasedByFinally ==
  \A p \in Execs : exec[p] \in {"returnedOk", "returnedError", "failed"} => lockHolder # p

\* doPost was left by the exception of getSS_ with the lock still held.
LeftHoldingLock == \E p \in Execs : exec[p] = "thrown" /\ lockHolder = p

-----------------------------------------------------------------------------
(* Properties of a waiver run that fails or awards nothing *)

RunBeginStep == nreq' = nreq + 1 /\ lastReq'.action = "WAIVER_RUN"

RunMustFail(data) ==
  data.cycleId = "" \/ data.eventName = "" \/ loadStandings_(standings) = <<>>

ActiveOf(reqs, cycleId) ==
  {i \in 1..Len(reqs) : reqs[i].cycleId = cycleId /\ reqs[i].status = "ACTIVE"}

\* A run refused at its start answers with an error and writes nothing.
FailedRunStep ==
  (RunBeginStep /\ RunMustFail(lastReq')) =>
     /\ resp'.action = "WAIVER_RUN" /\ ~resp'.ok
     /\ UNCHANGED <<awardsLog, requests, smsLog, ranCycles, pc, run>>

\* A run that reaches its end without an award answers ok and rolls the cycle.
EmptyRunStep ==
  (pc = "finish" /\ pc' = "idle" /\ AwardedOf(run.awardRowsToAppend) = <<>>) =>
     /\ resp'.ok /\ ~resp'.alreadyPosted
     /\ AwardedOf(awardsLog') = AwardedOf(awardsLog)
     /\ Len(requests') = Len(requests)
     /\ \A i \in 1..Len(requests) :
          requests'[i] =
            IF i \in ActiveOf(requests, run.cycleId)
              THEN [requests[i] EXCEPT !.status = "ROLLED"]
              ELSE requests[i]

\* C22: a WAIVER_RUN without cycleId or eventName, or with empty standings,
\* returns an error and changes neither WaiverAwardsLog nor WaiverRequests nor
\* SmsLog, so the cycle can still be run; a run in which no pick is eligible
\* returns ok with no award and marks the cycle's ACTIVE requests ROLLED.
C22_FailedOrEmptyRun == [][FailedRunStep /\ EmptyRunStep]_vars

\* An empty run has rolled a wishlist, and a run has been refused for standings.
C22_Witness ==
  /\ pc = "idle"
  /\ resp = [action |-> "WAIVER_RUN", ok |-> TRUE, alreadyPosted |-> FALSE,
             cycleId |-> "c1", eventName |-> "ev", lines |-> <<RoundHeader(1)>>]
  /\ AwardedOf(awardsLog) = <<>>
  /\ \E i \in 1..Len(requests) : requests[i].cycleId = "c1" /\ requests[i].status = "ROLLED"

C22_WitnessRefused ==
  /\ resp = RunFail("STANDINGS_EMPTY")
  /\ requests # <<>>
  /\ ActiveOf(requests, lastReq.cycleId) # {}

-----------------------------------------------------------------------------
(* Properties of the alert fan-out *)

FanDone(p) == fan[p].pos = "done"

AllAttempted(p) == fan[p].attempted = 1..Len(AlertTargets(fan[p].kind))

\* C23: in the alert fan-out of a WAIVER_RUN or of a transaction commit, a
\* failed send to one team (provider error, or an exception of the HTTP call or
\* of the log write) does not keep the loop from attempting the remaining
\* teams, and the request that triggered the fan-out still answers ok.
C23_FanoutSurvivesFailure ==
  \A p \in Fans :
    (FanDone(p) /\ fan[p].kind \in DoPostAlerts) => AllAttempted(p) /\ fan[p].reply = "ok"

\* What holds: a send the provider refuses does not stop the loop.
C23_ProviderErrorKeepsGoing ==
  \A p \in Fans : (FanDone(p) /\ ~fan[p].threw) => AllAttempted(p)

\* What holds: the fan-out never turns its request into an error.
C23_TriggerStaysOk == \A p \in Fans : FanDone(p) => fan[p].reply = "ok"

\* A fan-out went on to the second team after the provider refused the first.
C23_ProviderErrorSeen ==
  \E p \in Fans :
    /\ FanDone(p) /\ ~fan[p].threw /\ Len(AlertTargets(fan[p].kind)) = 2
    /\ \E k \in 1..Len(smsLog) : smsLog[k].status = "ERROR" /\ smsLog[k].alertType = fan[p].kind

\* C24: for any dedupe key at most one SMS with that key is sent within the
\* dedupe window, across repeated triggers and across script executions that
\* run at the same time.
C24_OneSentPerKey == \A a, b \in twilio : a.key = b.key => a.by = b.by

\* What holds: executions that the script lock serialises send a key once.
C24_OneSentPerKeyUnderLock ==
  \A a, b \in twilio : (a.key = b.key /\ a.key[1] \in DoPostAlerts) => a.by = b.by

-----------------------------------------------------------------------------
(* Properties of the StatsFact upsert *)

UpsertStep == nreq' = nreq + 1

KeysUnique(sheet) ==
  \A i, j \in 1..Len(sheet) : (i # j /\ sheet[i].Key # <<>>) => sheet[i].Key # sheet[j].Key

\* The input row is skipped under the options of the call.
Lacking(r, skipMissingStatId) == ~HasRequired(r) \/ (skipMissingStatId /\ r.StatId = "")

ValidRows(rows, skipMissingStatId) ==
  SelectSeq(rows, LAMBDA r : ~Lacking(r, skipMissingStatId))

KeyOfInput(r) ==
  buildStatsFactKey_(r.Season, r.EventCode, r.TournID, r.Division, r.PdgaNumber, r.StatId)

\* No two rows of the batch that are not skipped have the same key.
NoRepeatedKey(rows, skipMissingStatId) ==
  LET valid == ValidRows(rows, skipMissingStatId)
  IN \A i, j \in 1..Len(valid) : i # j => KeyOfInput(valid[i]) # KeyOfInput(valid[j])

\* C25: after any sequence of upsertStatsFactRows_ calls on a sheet whose keys
\* are unique at first, no two StatsFact rows have the same composite Key, also
\* when one input batch holds the same key more than once.
C25_KeysStayUnique == KeysUnique(statsFact)

\* What holds: a batch that names every key once keeps the keys unique.
C25_UniqueWithoutRepeats ==
  [][(UpsertStep /\ KeysUnique(statsFact)
        /\ NoRepeatedKey(statsRes'.rows, statsRes'.skipMissingStatId))
       => KeysUnique(statsFact')]_vars

SameApartFromPulledAt(a, b) == [a EXCEPT !.PulledAt = 0] = [b EXCEPT !.PulledAt = 0]

\* The call repeats the input and the options of the call before it.
SecondRun ==
  /\ UpsertStep /\ nreq >= 1
  /\ statsRes'.rows = statsRes.rows /\ statsRes'.rows # <<>>
  /\ statsRes'.skipMissingStatId = statsRes.skipMissingStatId

SecondRunChangesNothing ==
  /\ statsRes'.inserted = 0
  /\ statsRes'.updated = Len(ValidRows(statsRes'.rows, statsRes'.skipMissingStatId))
  /\ Len(statsFact') = Len(statsFact)
  /\ \A i \in 1..Len(statsFact) : SameApartFromPulledAt(statsFact'[i], statsFact[i])

\* C26: upsertStatsFactRows_ is idempotent: the same batch applied a second
\* time reports inserted = 0 and every valid row as updated, adds no row and
\* leaves the content of every row as it was, apart from PulledAt.
C26_UpsertIsIdempotent == [][SecondRun => SecondRunChangesNothing]_vars

\* What holds: the same for a batch that names every key once, on unique keys.
C26_IdempotentWithoutRepeats ==
  [][(SecondRun /\ KeysUnique(statsFact)
        /\ NoRepeatedKey(statsRes'.rows, statsRes'.skipMissingStatId))
       => SecondRunChangesNothing]_vars

\* A batch with a valid row has been applied twice in a row.
C26_SecondRunSeen ==
  /\ nreq = 2 /\ statsRes.inserted = 0 /\ statsRes.updated = 2
  /\ Len(statsFact) = 2 /\ KeysUnique(statsFact)
  /\ \A i \in 1..Len(statsFact) : statsFact[i].PulledAt = 2

\* C27: an input row without a required field, or without StatId under the
\* default options, is skipped and leaves the sheet as the batch without it
\* does; inserted + updated + skipped is the number of input rows.
C27_SkippedRowsAndCounts ==
  [][UpsertStep =>
       LET rows == statsRes'.rows
           opt == statsRes'.skipMissingStatId
       IN /\ statsRes'.inserted + statsRes'.updated + statsRes'.skipped = Len(rows)
          /\ statsRes'.total = Len(rows)
          /\ statsRes'.skipped = Len(rows) - Len(ValidRows(rows, opt))
          /\ statsFact' = upsertStatsFactRows_(statsFact, ValidRows(rows, opt), opt, nreq').sheet
          /\ (ValidRows(rows, opt) = <<>> => statsFact' = statsFact)]_vars

\* A call under the default options skipped a row without StatId and took another.
C27_Witness ==
  /\ statsRes.skipMissingStatId
  /\ statsRes.skipped = 1 /\ statsRes.inserted = 1
  /\ \E k \in 1..Len(statsRes.rows) : statsRes.rows[k].StatId = "" /\ HasRequired(statsRes.rows[k])
  /\ Len(statsFact) = 1 /\ statsFact[1].StatId # ""

-----------------------------------------------------------------------------
(* Properties of requests submitted after the run of their cycle *)

ActiveOfRunCycle ==
  {i \in 1..Len(requests) : requests[i].cycleId \in ranCycles /\ requests[i].status = "ACTIVE"}

\* C28: once a WAIVER_RUN of cycle c has completed, no request row of c is
\* ACTIVE in any later state: a WAIVER_SUBMIT for a cycle that has been run
\* cannot leave ACTIVE rows that no run will ever award or roll.
C28_NoActiveAfterRun == ActiveOfRunCycle = {}

\* What holds: the run itself leaves no ACTIVE row of its cycle.
C28_RunLeavesNoActive ==
  [][(pc = "finish" /\ pc' = "idle") => ActiveOf(requests', run.cycleId) = {}]_vars

\* What holds of the rows a late submit leaves: no later request rolls them or
\* awards them.
C28_LateRowsStayActive ==
  [][\A i \in ActiveOfRunCycle :
       /\ requests'[i].status \in {"ACTIVE", "VOID"}
       /\ AwardedRows(awardsLog', requests[i].cycleId)
            = AwardedRows(awardsLog, requests[i].cycleId)]_vars

\* A wishlist was accepted for a cycle that had been run.
C28_LateSubmitSeen ==
  /\ lastReq.action = "WAIVER_SUBMIT" /\ resp.ok
  /\ lastReq.cycleId \in ranCycles
  /\ ActiveOf(requests, lastReq.cycleId) # {}

-----------------------------------------------------------------------------
(* Properties of the /trade command *)

TradeEnded == bot.pos \in {"done", "failed"}

\* C29: /trade is atomic: when it has finished, either both players changed
\* teams (two TRADE rows committed) or neither did; the first TRADE is never
\* left alone when the second fails, and no commit of another request lies
\* between the two rows.
C29_TradeIsAtomic ==
  TradeEnded =>
    \/ bot.first = 0 /\ bot.second = 0
    \/ bot.first > 0 /\ bot.second = bot.first + 1

\* What holds: a command that ended well committed the row of each player.
C29_DoneMeansBothRows ==
  bot.pos = "done" =>
    /\ transactions[bot.first] = TxRow("TRADE", bot.teamA, bot.pdgaA, bot.teamA, bot.teamB)
    /\ transactions[bot.second] = TxRow("TRADE", bot.teamB, bot.pdgaB, bot.teamB, bot.teamA)

\* The second post was refused after the first was committed.
C29_OnlyFirstCommitted == bot.pos = "failed" /\ bot.first > 0

\* Another member's commit lies between the two rows of the trade.
C29_CommitBetween == bot.pos = "done" /\ bot.second > bot.first + 1

C29_BothCommitted == bot.pos = "done" /\ bot.second = bot.first + 1

-----------------------------------------------------------------------------
(* Properties of the reads of Rosters while a rebuild runs *)

RostersComplete == rosters = rebuildRosters(draftBoard, transactions)

\* C30: every read of the ownership state (transaction validation, waiver
\* submission, waiver eligibility, withdrawal detection) sees a complete
\* Rosters and never the cleared or half written sheet of a rebuild, however
\* doPost is interleaved with the Rebuild Rosters action of the menu.
C30_ReadsSeeCompleteRosters == [][nreq' = nreq + 1 => RostersComplete]_vars

\* What holds: Rosters is complete whenever no menu rebuild is under way.
C30_CompleteWhenNoRebuildRuns == menu = "idle" => RostersComplete

\* An ADD of a player of Exalted Evil by Ryan Morgan was committed.
C30_OwnedPlayerAdded ==
  /\ lastReq = AddReq("Ryan Morgan", "p1", "n", "", "")
  /\ resp.ok
  /\ \E i \in 1..Len(transactions) : transactions[i].type = "ADD" /\ transactions[i].pdga = "p1"

\* A wishlist naming a player of Exalted Evil was accepted from Ryan Morgan.
C30_OwnedPlayerWished ==
  /\ lastReq.action = "WAIVER_SUBMIT" /\ resp.ok
  /\ requests # <<>>
  /\ rebuildRosters(draftBoard, transactions)["p1"] = "Exalted Evil"

-----------------------------------------------------------------------------
(* Properties of committed rows under the fold *)

\* The rows the latest step appended to Transactions.
NewRows == SubSeq(transactions', Len(transactions) + 1, Len(transactions'))

\* The owner the fold gives after row: what the row's type says.
OwnerSaid(row) ==
  CASE row.type = "ADD" -> IF row.to # "" THEN row.to ELSE row.team
    [] row.type = "DROP" -> FREE_AGENT
    [] row.type = "TRADE" -> row.to
    [] OTHER -> ""

CommitTakesEffect ==
  \A k \in 1..Len(NewRows) :
    /\ NewRows[k].type \in {"ADD", "DROP", "TRADE"}
    /\ rebuildRosters(draftBoard, transactions')[NewRows[k].pdga] = OwnerSaid(NewRows[k])

-----------------------------------------------------------------------------
(* Properties of the SMS caps *)

\* C32: within one hour bucket at most SMS_MAX_SENDS_PER_HOUR messages and
\* within one day bucket at most SMS_MAX_SENDS_PER_DAY messages are SENT over
\* all script executions, executions that run concurrently included.
C32_HourAndDayCapsHold ==
  /\ accepted.hour <= SMS_MAX_SENDS_PER_HOUR
  /\ accepted.day <= SMS_MAX_SENDS_PER_DAY

\* What holds: the counters never exceed the caps, and they never count more
\* than was sent.
C32_CountersWithinCaps ==
  /\ counters.hour <= SMS_MAX_SENDS_PER_HOUR /\ counters.hour <= accepted.hour
  /\ counters.day <= SMS_MAX_SENDS_PER_DAY /\ counters.day <= accepted.day

\* Both executions read 39 and both sent: 41 messages in the hour, counter 40.
C32_LostUpdate ==
  /\ accepted.hour = SMS_MAX_SENDS_PER_HOUR + 1
  /\ counters.hour = SMS_MAX_SENDS_PER_HOUR

\* C33: no single script execution, a doPost request or an updateAllEvents
\* run over all events and both division sheets, sends more than
\* SMS_MAX_SENDS_PER_INVOCATION messages.
C33_InvocationCapHolds == \A p \in Fans : accepted.by[p] <= SMS_MAX_SENDS_PER_INVOCATION

\* What holds: within one call of a fan-out function the budget stays within
\* the cap, and the message after the fifteenth is refused.
C33_BudgetWithinCap == \A p \in Fans : sender[p].budget <= SMS_MAX_SENDS_PER_INVOCATION

C33_RefusedByBudget ==
  \E i \in 1..Len(smsLog) : smsLog[i].error = "INVOCATION_CAP_REACHED"

-----------------------------------------------------------------------------
(* Properties of the dedupe key around failed attempts *)

\* An attempt with this key ended in a provider error or at the hour or day cap.
FailedAttempt(key) ==
  \E i \in 1..Len(smsLog) :
    /\ smsLog[i].key = key /\ smsLog[i].status = "ERROR"
    /\ smsLog[i].error \in {"Twilio error", "HOUR_CAP_REACHED", "DAY_CAP_REACHED"}

\* Execution p calls sendSmsAlert_ in this step.
AttemptBegins(p) ==
  /\ sender[p].pos = "loop" /\ sender[p].calls # <<>>
  /\ sender'[p] # sender[p]

\* An execution that is past the dedupe step has its key in the cache.
KeyRecordedBeforeCapsAndSend ==
  \A p \in Fans : sender[p].pos = "fetch" => Message(sender[p]) \in cache

RetryIsSuppressed ==
  \A p \in Fans :
    AttemptBegins(p) /\ FailedAttempt(Message(sender[p])) =>
      /\ smsLog' = Append(smsLog, [key |-> Message(sender[p]), status |-> "SKIPPED",
                                   error |-> "DUPLICATE_SUPPRESSED"])
      /\ sender'[p].pos = "loop"
      /\ accepted' = accepted

\* C39: the dedupe key is recorded before the caps are checked and before the
\* send: after an attempt that ended in a provider error or at the hour or day
\* cap, a retry with the same key is logged as SKIPPED, DUPLICATE_SUPPRESSED,
\* and no message is sent for it.
C39_FailedAttemptBlocksRetry ==
  [][RetryIsSuppressed /\ KeyRecordedBeforeCapsAndSend']_vars

\* Key 2 was refused at the hour cap, the retry of a later request was
\* suppressed, and no message with that key was ever sent.
C39_Witness ==
  \E i, j \in 1..Len(smsLog) :
    /\ i < j
    /\ smsLog[i] = [key |-> 2, status |-> "ERROR", error |-> "HOUR_CAP_REACHED"]
    /\ smsLog[j] = [key |-> 2, status |-> "SKIPPED", error |-> "DUPLICATE_SUPPRESSED"]
    /\ \A k \in 1..Len(smsLog) : smsLog[k].key = 2 => smsLog[k].status # "SENT"

\* The same after a message the provider refused.
C39_WitnessProviderError ==
  \E i, j \in 1..Len(smsLog) :
    /\ i < j
    /\ smsLog[i] = [key |-> 3, status |-> "ERROR", error |-> "Twilio error"]
    /\ smsLog[j] = [key |-> 3, status |-> "SKIPPED", error |-> "DUPLICATE_SUPPRESSED"]


-----------------------------------------------------------------------------
(* Properties of STOP, START and the AlertSubscriptions sheet                 *)

NewSms == SubSeq(smsLog', Len(smsLog) + 1, Len(smsLog'))

\* C34: after a STOP from a phone and until a START from it, no SMS of any
\* type goes to that phone, whatever ALERTS_SET requests follow and also when
\* the phone is saved for more than one team.
C34_NoSmsAfterStop ==
  [][\A i \in 1..Len(NewSms) : NewSms[i].toPhone \notin optedOut]_vars

\* C35: every AlertSubscriptions row with OptOut TRUE has Enabled FALSE.
C35_OptOutImpliesDisabled ==
  \A i \in 1..Len(subs) : subs[i].optOut => ~subs[i].enabled

\* An ALERTS_SET asking for enabled alerts has rewritten an opted-out row.
C35_Witness ==
  /\ lastReq.action = "ALERTS_SET"
  /\ lastReq.enabled
  /\ resp.ok
  /\ \E i \in 1..Len(subs) :
       /\ subs[i].team = normalizeTeam_(lastReq.team)
       /\ subs[i].optOut
       /\ ~subs[i].enabled

\* C36: a START from a phone that has a row leaves that phone's row
\* re-subscribed as the reply says: OptOut FALSE and Enabled TRUE.
C36_StartResubscribes ==
  (lastReq.action = "TWILIO_INBOUND" /\ lastReq.body \in StartWords)
    => \A i \in 1..Len(subs) :
         subs[i].phone = lastReq.from => (~subs[i].optOut /\ subs[i].enabled)


-----------------------------------------------------------------------------
(* Properties of the Lineups and LineupHistory sheets                         *)

HistoryRowsOf(code, team) ==
  {i \in 1..Len(lineupHistory) : lineupHistory[i] = [EventCode |-> code, Team |-> team]}

\* C37: over nightly scoring runs and the Lock and Finalize menu items,
\* LineupHistory holds at most one row per (EventCode, Team) and a FINALIZED
\* Lineups row never returns to LOCKED.
C37_FinalizedAtMostOnce ==
  [][/\ \A k \in 1..Len(canonTeamsNoFA_) :
          Cardinality(HistoryRowsOf(Event.eventCode, canonTeamsNoFA_[k]))' <= 1
     /\ \A i \in 1..Len(lineups) :
          lineups[i].Status = "FINALIZED" => lineups'[i].Status # "LOCKED"]_vars

\* A nightly run on the end date has finalized and set the guard.
C37_NightlyFinalized ==
  /\ lastReq.action = "scoreNightlyPdgaLive"
  /\ wasEventFinalized_(Event.eventCode)
  /\ \E i \in 1..Len(lineups) : lineups[i].Status = "FINALIZED"

\* The same lineup is in LineupHistory twice.
C37_TwoHistoryRows ==
  \E k \in 1..Len(canonTeamsNoFA_) :
    Cardinality(HistoryRowsOf(Event.eventCode, canonTeamsNoFA_[k])) > 1


-----------------------------------------------------------------------------
(* Properties of the waiver channel                                           *)

PostsOf(cycleId) == {i \in 1..Len(channel) : channel[i].cycleId = cycleId}

\* C38: when a WAIVER_RUN has computed the awards of a cycle, a trigger of the
\* cycle that ends well (this one or a later one) leaves the award lines in
\* the waiver channel, and they are posted at most once.
C38_AwardsArePosted ==
  /\ \A c \in Cycles : Cardinality(PostsOf(c)) <= 1
  /\ (/\ cron.pos = "idle"
      /\ cron.returned \in {"posted", "alreadyPosted"}
      /\ cycleAlreadyAwarded_(awardsLog, cron.cycleId))
       => PostsOf(cron.cycleId) # {}

\* The awards of a cycle are in the channel at most once.
C38_PostedAtMostOnce ==
  \A c \in Cycles : cycleAlreadyAwarded_(awardsLog, c) => Cardinality(PostsOf(c)) <= 1

\* A trigger whose run computed awards has posted them.
C38_Posted ==
  /\ cron.returned = "posted"
  /\ cycleAlreadyAwarded_(awardsLog, cron.cycleId)
  /\ PostsOf(cron.cycleId) # {}

\* The post failed and the re-trigger was answered alreadyPosted.
C38_Lost ==
  /\ cron.returned = "alreadyPosted"
  /\ cycleAlreadyAwarded_(awardsLog, cron.cycleId)
  /\ PostsOf(cron.cycleId) = {}


-----------------------------------------------------------------------------
(* Properties of an award and the ADD that claims it                          *)

Awarded(pdga) ==
  \E k \in 1..Len(awardsLog) : awardsLog[k].status = "AWARDED" /\ awardsLog[k].pdga = pdga

AddedSince(pdga) ==
  \E k \in 1..Len(transactions) : transactions[k].type = "ADD" /\ transactions[k].pdga = pdga

RunSteps == pc # "idle" \/ (nreq' = nreq + 1 /\ lastReq'.action = "WAIVER_RUN")

\* An ADD to commit, of an awarded free agent, for a team with room.
ClaimOfAward ==
  /\ lastReq'.action = "TX"
  /\ IssuedTx("ADD")
  /\ ToLowerCase(lastReq'.mode) # "validate"
  /\ Awarded(lastReq'.pdga)
  /\ FreeAgentNow(lastReq'.pdga)
  /\ countByTeamOf(rosters, AddTarget(lastReq')) < MAX_ROSTER

\* C40: WAIVER_RUN changes neither Transactions nor Rosters; an awarded player
\* stays a free agent until an ADD of the player is committed, and the first
\* ADD of an awarded free agent is accepted for the team that submits it,
\* awarded or not.
C40_AwardIsClaimedByAdd ==
  [][/\ RunSteps => UNCHANGED <<transactions, rosters>>
     /\ \A p \in ActivePdgas : (Awarded(p) /\ ~AddedSince(p))' => FreeAgentNow(p)'
     /\ ClaimOfAward =>
          /\ resp'.ok
          /\ normalizeTeam_(rosters'[lastReq'.pdga]) = AddTarget(lastReq')]_vars

\* A team has added the player that the run awarded to another team.
C40_Witness ==
  /\ lastReq.action = "TX"
  /\ resp.ok
  /\ \E k \in 1..Len(awardsLog) :
       /\ awardsLog[k].status = "AWARDED"
       /\ awardsLog[k].pdga = lastReq.pdga
       /\ awardsLog[k].team # normalizeTeam_(rosters[lastReq.pdga])
  /\ normalizeTeam_(rosters[lastReq.pdga]) \in LeagueTeams

====
